---- MODULE Spec2Model ----
(***************************************************************************)
(* OpenLockey: password authentication, account lockout, cookie sessions   *)
(* and the administrator-mediated reset-request workflow.                  *)
(*                                                                         *)
(* The relational store is modelled by four tables (users, sessions,       *)
(* login_history, reset_requests).  Row ids are the positions in the       *)
(* sequences.  Every HTTP handler is one action; `last` records the        *)
(* request that was served and the response it produced.  Time is counted  *)
(* in hours, the unit of the lock duration and of the session lifetime.    *)
(***************************************************************************)
EXTENDS Integers, Sequences, FiniteSets, Bags, TLC

VARIABLES now, users, sessions, login_history, reset_requests, last, inflight

vars == <<now, users, sessions, login_history, reset_requests, last, inflight>>

(* ---------------- program constants (app/core/config.py) --------------- *)
SESSION_EXPIRE_HOURS == 72
FAIL_LOCK_ATTEMPTS == 5
FAIL_LOCK_DURATION_HOURS == 2

(* Python None in a nullable integer or timestamp column.                  *)
NULL == -1

(* ---------------- bounds of the model ---------------------------------- *)
\* requests arrive at instant 0 and at the 1+MaxSkew instants that end with
\* the lapse of a lock, or the expiry of a session, that started at 0
MaxSkew == 1
\* rows the sessions table may hold
MaxSessions == 2
\* rows the login_history table may hold
MaxHistory == 6
\* rows of reset_requests present in the store
MaxRequests == 1
\* requests that may be in flight at once
MaxCalls == 2
\* rows the users table may hold
MaxUsers == 3
\* seeds of the sources of randomness: 0..MaxSeed
MaxSeed == 2

InstantsUpTo(period) == {0} \cup {t \in 0..period : period - t <= MaxSkew}
LockInstants == InstantsUpTo(FAIL_LOCK_DURATION_HOURS)
SessionInstants == InstantsUpTo(SESSION_EXPIRE_HOURS)

Passwords == {"pw1", "pw2"}

\* cookie values a client can present: none, an issued token, a token that
\* was never issued
NoToken == 0
UnknownToken == MaxSessions + 1
Tokens == 0..(MaxSessions + 1)

(* ---------------- app/core/security.py --------------------------------- *)
\* the salted hash is opaque; verify succeeds exactly on the hashed plaintext
get_password_hash(password) == <<"argon2", password>>

verify_password(plain_password, hashed_password) ==
    hashed_password = <<"argon2", plain_password>>

\* secrets.token_urlsafe(32): a value no earlier session carries
generate_session_token == Len(sessions) + 1

is_locked(user) ==
    IF user.permanent_lock THEN TRUE
    ELSE IF user.locked_until # NULL /\ user.locked_until > now THEN TRUE
    ELSE FALSE

(* ---------------- queries ---------------------------------------------- *)
\* select(User).where(User.username == name) ... first()
UserByName(name) ==
    IF \E i \in DOMAIN users : users[i].username = name
    THEN CHOOSE i \in DOMAIN users :
            /\ users[i].username = name
            /\ \A j \in DOMAIN users : users[j].username = name => i <= j
    ELSE NULL

\* the session query without its expires_at filter
ValidSession_IgnoresExpiry(token) ==
    IF \E i \in DOMAIN sessions :
          sessions[i].token_hash = token /\ sessions[i].is_active
    THEN CHOOSE i \in DOMAIN sessions :
          sessions[i].token_hash = token /\ sessions[i].is_active
    ELSE NULL

\* select(Session).where(token_hash == token, is_active == True,
\*                       expires_at > utcnow()) ... first()
ValidSession(token) ==
    IF \E i \in DOMAIN sessions :
          /\ sessions[i].token_hash = token
          /\ sessions[i].is_active
          /\ sessions[i].expires_at > now
    THEN CHOOSE i \in DOMAIN sessions :
          /\ sessions[i].token_hash = token
          /\ sessions[i].is_active
          /\ sessions[i].expires_at > now
    ELSE NULL

\* select(Session).where(token_hash == token) ... first()
SessionByToken(token) ==
    IF \E i \in DOMAIN sessions : sessions[i].token_hash = token
    THEN CHOOSE i \in DOMAIN sessions : sessions[i].token_hash = token
    ELSE NULL

HistoryRow(uid, ok, reason) ==
    [user_id |-> uid, success |-> ok, failure_reason |-> reason]

HistoryCount == BagCardinality(login_history)

\* a request body in which every field is absent: a field is a set, empty
\* when the field is absent, else holding its value
NoChange == [username |-> {}, is_admin |-> {}, is_active |-> {},
             permanent_lock |-> {}, locked_until |-> {}]

\* reset_data.new_password is optional: with generate_password = false and no
\* new_password, get_password_hash(None) raises (admin.py:185)
NoPassword == ""

\* The request served (op, username, password, token, target, status,
\* payload, generate, elapsed) and the response the client receives (code,
\* detail, user, minutes, new_password).
Served(op, username, password, token, target, code, detail, user, minutes) ==
    [op |-> op, username |-> username, password |-> password, token |-> token,
     target |-> target, status |-> "", payload |-> NoChange,
     generate |-> FALSE, code |-> code, detail |-> detail,
     user |-> user, minutes |-> minutes, new_password |-> NoPassword,
     elapsed |-> 0]

(* ---------------- initial store ---------------------------------------- *)
\* column defaults of app/models/models.py
NewUser(username, password, is_admin) ==
    [username |-> username, password_hash |-> get_password_hash(password),
     last_login |-> NULL, is_admin |-> is_admin, is_active |-> TRUE,
     failed_login_attempts |-> 0, locked_until |-> NULL,
     permanent_lock |-> FALSE]

PendingRequest(uid) ==
    [user_id |-> uid, status |-> "pending", resolved_by |-> NULL,
     resolved_at |-> NULL]

\* Requests in flight.  A handler is a coroutine: it gives way to the other
\* requests at every await (each query, each commit), and what it has read
\* into its ORM objects stays as read.  inflight[p] holds what call p has
\* read and how far it has come.
Calls == 1..MaxCalls
Idle == [phase |-> "idle"]

\* The administrator made by initial_setup.py and one registered user.  The
\* reset_requests table holds pending rows: request_password_reset cannot
\* insert one (see request_password_reset), the rows are content of the store.
Init ==
    /\ now = 0
    /\ users = <<NewUser("root", "pw1", TRUE), NewUser("alice", "pw1", FALSE)>>
    /\ sessions = <<>>
    /\ login_history = EmptyBag
    /\ reset_requests = [i \in 1..MaxRequests |-> PendingRequest(2)]
    /\ last = Served("init", "", "", NoToken, NULL, 0, "none", NULL, NULL)
    /\ inflight = [p \in Calls |-> Idle]

(* ---------------- the clock -------------------------------------------- *)
Tick(instants) ==
    /\ \E t \in instants : t > now /\ now' = t
    /\ UNCHANGED <<users, sessions, login_history, reset_requests, last,
                   inflight>>

(* ---------------- app/api/auth.py: login ------------------------------- *)
LoginUnknown(username, password) ==
    /\ UserByName(username) = NULL
    /\ login_history' = login_history (+)
           SetToBag({HistoryRow(NULL, FALSE, "unknown-user")})
    /\ last' = Served("login", username, password, NoToken, NULL,
                      401, "auth-failed", NULL, NULL)
    /\ UNCHANGED <<users, sessions>>

\* the temporary lock is looked at before the permanent one
LoginPermanentLock_TemporaryFirst(username, password) ==
    LET uid == UserByName(username) IN
    /\ uid # NULL
    /\ users[uid].permanent_lock
    /\ IF users[uid].locked_until # NULL /\ users[uid].locked_until > now
       THEN /\ login_history' = login_history (+)
                   SetToBag({HistoryRow(uid, FALSE, "temporary-lock")})
            /\ last' = Served("login", username, password, NoToken, uid,
                              401, "locked-retry-later", NULL, NULL)
       ELSE /\ login_history' = login_history (+)
                   SetToBag({HistoryRow(uid, FALSE, "permanent-lock")})
            /\ last' = Served("login", username, password, NoToken, uid,
                              401, "locked-contact-admin", NULL, NULL)
    /\ UNCHANGED <<users, sessions>>

LoginPermanentLock(username, password) ==
    LET uid == UserByName(username) IN
    /\ uid # NULL
    /\ users[uid].permanent_lock
    /\ login_history' = login_history (+)
           SetToBag({HistoryRow(uid, FALSE, "permanent-lock")})
    /\ last' = Served("login", username, password, NoToken, uid,
                      401, "locked-contact-admin", NULL, NULL)
    /\ UNCHANGED <<users, sessions>>

\* `now` counts whole hours; a request is served `elapsed` seconds into the
\* hour, and datetime.utcnow() at auth.py:89 reads now plus these seconds
\* (the comparison of auth.py:84 gives the same answer anywhere in the hour)
SecondsPerHour == 3600
Elapsed == {0, 30, 60, SecondsPerHour - 1}

\* (locked_until - datetime.utcnow()).total_seconds()
total_seconds(locked_until, elapsed) ==
    (locked_until - now) * SecondsPerHour - elapsed

\* int(x / 60) for x >= 0: the fraction is dropped
int_minutes(seconds) == seconds \div 60

LoginTemporaryLock(username, password) ==
    LET uid == UserByName(username) IN
    /\ uid # NULL
    /\ ~users[uid].permanent_lock
    /\ users[uid].locked_until # NULL /\ users[uid].locked_until > now
    /\ login_history' = login_history (+)
           SetToBag({HistoryRow(uid, FALSE, "temporary-lock")})
    /\ \E elapsed \in Elapsed :
          LET lock_remaining == total_seconds(users[uid].locked_until, elapsed)
          IN last' = [Served("login", username, password, NoToken, uid,
                             401, "locked-retry-later", NULL,
                             int_minutes(lock_remaining))
                      EXCEPT !.elapsed = elapsed]
    /\ UNCHANGED <<users, sessions>>
\* the threshold compared with > : the lock comes one failure late
LoginBadPassword_LocksLate(username, password) ==
    LET uid == UserByName(username) IN
    /\ uid # NULL
    /\ ~users[uid].permanent_lock
    /\ ~(users[uid].locked_until # NULL /\ users[uid].locked_until > now)
    /\ ~verify_password(password, users[uid].password_hash)
    /\ LET n == users[uid].failed_login_attempts + 1 IN
       IF n > FAIL_LOCK_ATTEMPTS
       THEN /\ users' = [users EXCEPT
                   ![uid].failed_login_attempts = n,
                   ![uid].locked_until = now + FAIL_LOCK_DURATION_HOURS]
            /\ login_history' = login_history (+)
                   SetToBag({HistoryRow(uid, FALSE, "bad-credential-now-locked")})
       ELSE /\ users' = [users EXCEPT ![uid].failed_login_attempts = n]
            /\ login_history' = login_history (+)
                   SetToBag({HistoryRow(uid, FALSE, "bad-credential")})
    /\ last' = Served("login", username, password, NoToken, uid,
                      401, "auth-failed", NULL, NULL)
    /\ UNCHANGED sessions

\* the failure that sets the lock answers with the lock message
LoginBadPassword_AnnouncesLock(username, password) ==
    LET uid == UserByName(username) IN
    /\ uid # NULL
    /\ ~users[uid].permanent_lock
    /\ ~(users[uid].locked_until # NULL /\ users[uid].locked_until > now)
    /\ ~verify_password(password, users[uid].password_hash)
    /\ LET n == users[uid].failed_login_attempts + 1 IN
       IF n >= FAIL_LOCK_ATTEMPTS
       THEN /\ users' = [users EXCEPT
                   ![uid].failed_login_attempts = n,
                   ![uid].locked_until = now + FAIL_LOCK_DURATION_HOURS]
            /\ login_history' = login_history (+)
                   SetToBag({HistoryRow(uid, FALSE, "bad-credential-now-locked")})
            /\ last' = Served("login", username, password, NoToken, uid,
                              401, "locked-retry-later", NULL,
                              FAIL_LOCK_DURATION_HOURS * 60)
       ELSE /\ users' = [users EXCEPT ![uid].failed_login_attempts = n]
            /\ login_history' = login_history (+)
                   SetToBag({HistoryRow(uid, FALSE, "bad-credential")})
            /\ last' = Served("login", username, password, NoToken, uid,
                              401, "auth-failed", NULL, NULL)
    /\ UNCHANGED sessions

\* the lock is committed without the row of the attempt that set it
LoginBadPassword_LockWithoutRow(username, password) ==
    LET uid == UserByName(username) IN
    /\ uid # NULL
    /\ ~users[uid].permanent_lock
    /\ ~(users[uid].locked_until # NULL /\ users[uid].locked_until > now)
    /\ ~verify_password(password, users[uid].password_hash)
    /\ LET n == users[uid].failed_login_attempts + 1 IN
       IF n >= FAIL_LOCK_ATTEMPTS
       THEN /\ users' = [users EXCEPT
                   ![uid].failed_login_attempts = n,
                   ![uid].locked_until = now + FAIL_LOCK_DURATION_HOURS]
            /\ UNCHANGED login_history
       ELSE /\ users' = [users EXCEPT ![uid].failed_login_attempts = n]
            /\ login_history' = login_history (+)
                   SetToBag({HistoryRow(uid, FALSE, "bad-credential")})
    /\ last' = Served("login", username, password, NoToken, uid,
                      401, "auth-failed", NULL, NULL)
    /\ UNCHANGED sessions

\* the lock is set only by the failure that reaches the threshold
LoginBadPassword_LocksOnce(username, password) ==
    LET uid == UserByName(username) IN
    /\ uid # NULL
    /\ ~users[uid].permanent_lock
    /\ ~(users[uid].locked_until # NULL /\ users[uid].locked_until > now)
    /\ ~verify_password(password, users[uid].password_hash)
    /\ LET n == users[uid].failed_login_attempts + 1 IN
       IF n = FAIL_LOCK_ATTEMPTS
       THEN /\ users' = [users EXCEPT
                   ![uid].failed_login_attempts = n,
                   ![uid].locked_until = now + FAIL_LOCK_DURATION_HOURS]
            /\ login_history' = login_history (+)
                   SetToBag({HistoryRow(uid, FALSE, "bad-credential-now-locked")})
       ELSE /\ users' = [users EXCEPT ![uid].failed_login_attempts = n]
            /\ login_history' = login_history (+)
                   SetToBag({HistoryRow(uid, FALSE, "bad-credential")})
    /\ last' = Served("login", username, password, NoToken, uid,
                      401, "auth-failed", NULL, NULL)
    /\ UNCHANGED sessions

\* the count starts again at 1 once a lock has lapsed
LoginBadPassword_RestartsAfterLapse(username, password) ==
    LET uid == UserByName(username) IN
    /\ uid # NULL
    /\ ~users[uid].permanent_lock
    /\ ~(users[uid].locked_until # NULL /\ users[uid].locked_until > now)
    /\ ~verify_password(password, users[uid].password_hash)
    /\ LET n == IF users[uid].locked_until # NULL THEN 1
                ELSE users[uid].failed_login_attempts + 1
       IN
       IF n >= FAIL_LOCK_ATTEMPTS
       THEN /\ users' = [users EXCEPT
                   ![uid].failed_login_attempts = n,
                   ![uid].locked_until = now + FAIL_LOCK_DURATION_HOURS]
            /\ login_history' = login_history (+)
                   SetToBag({HistoryRow(uid, FALSE, "bad-credential-now-locked")})
       ELSE /\ users' = [users EXCEPT ![uid].failed_login_attempts = n]
            /\ login_history' = login_history (+)
                   SetToBag({HistoryRow(uid, FALSE, "bad-credential")})
    /\ last' = Served("login", username, password, NoToken, uid,
                      401, "auth-failed", NULL, NULL)
    /\ UNCHANGED sessions

LoginBadPassword(username, password) ==
    LET uid == UserByName(username) IN
    /\ uid # NULL
    /\ ~users[uid].permanent_lock
    /\ ~(users[uid].locked_until # NULL /\ users[uid].locked_until > now)
    /\ ~verify_password(password, users[uid].password_hash)
    /\ LET n == users[uid].failed_login_attempts + 1 IN
       IF n >= FAIL_LOCK_ATTEMPTS
       THEN /\ users' = [users EXCEPT
                   ![uid].failed_login_attempts = n,
                   ![uid].locked_until = now + FAIL_LOCK_DURATION_HOURS]
            /\ login_history' = login_history (+)
                   SetToBag({HistoryRow(uid, FALSE, "bad-credential-now-locked")})
       ELSE /\ users' = [users EXCEPT ![uid].failed_login_attempts = n]
            /\ login_history' = login_history (+)
                   SetToBag({HistoryRow(uid, FALSE, "bad-credential")})
    /\ last' = Served("login", username, password, NoToken, uid,
                      401, "auth-failed", NULL, NULL)
    /\ UNCHANGED sessions

\* the passphrase is verified without looking at the lock
LoginSuccess_SkipsLockCheck(username, password) ==
    LET uid == UserByName(username) IN
    /\ uid # NULL
    /\ verify_password(password, users[uid].password_hash)
    /\ Len(sessions) < MaxSessions
    /\ users' = [users EXCEPT ![uid].failed_login_attempts = 0,
                              ![uid].locked_until = NULL,
                              ![uid].last_login = now]
    /\ sessions' = Append(sessions,
           [user_id |-> uid, token_hash |-> generate_session_token,
            expires_at |-> now + SESSION_EXPIRE_HOURS, is_active |-> TRUE])
    /\ login_history' = login_history (+)
           SetToBag({HistoryRow(uid, TRUE, "none")})
    /\ last' = Served("login", username, password, NoToken, uid,
                      500, "internal-server-error", NULL, NULL)

\* a success that forgets to clear the lapsed lock
LoginSuccess_KeepsLockedUntil(username, password) ==
    LET uid == UserByName(username) IN
    /\ uid # NULL
    /\ ~users[uid].permanent_lock
    /\ ~(users[uid].locked_until # NULL /\ users[uid].locked_until > now)
    /\ verify_password(password, users[uid].password_hash)
    /\ Len(sessions) < MaxSessions
    /\ users' = [users EXCEPT ![uid].failed_login_attempts = 0,
                              ![uid].last_login = now]
    /\ sessions' = Append(sessions,
           [user_id |-> uid, token_hash |-> generate_session_token,
            expires_at |-> now + SESSION_EXPIRE_HOURS, is_active |-> TRUE])
    /\ login_history' = login_history (+)
           SetToBag({HistoryRow(uid, TRUE, "none")})
    /\ last' = Served("login", username, password, NoToken, uid,
                      500, "internal-server-error", NULL, NULL)

\* the session is stored, the history row of the success is not
LoginSuccess_NoHistoryRow(username, password) ==
    LET uid == UserByName(username) IN
    /\ uid # NULL
    /\ ~users[uid].permanent_lock
    /\ ~(users[uid].locked_until # NULL /\ users[uid].locked_until > now)
    /\ verify_password(password, users[uid].password_hash)
    /\ Len(sessions) < MaxSessions
    /\ users' = [users EXCEPT ![uid].failed_login_attempts = 0,
                              ![uid].locked_until = NULL,
                              ![uid].last_login = now]
    /\ sessions' = Append(sessions,
           [user_id |-> uid, token_hash |-> generate_session_token,
            expires_at |-> now + SESSION_EXPIRE_HOURS, is_active |-> TRUE])
    /\ UNCHANGED login_history
    /\ last' = Served("login", username, password, NoToken, uid,
                      500, "internal-server-error", NULL, NULL)

\* The rows are committed (auth.py:142); the handler then stores the user in
\* request.session (auth.py:156), which raises because app/main.py installs
\* no SessionMiddleware: the client receives 500 without cookie or identity.
LoginSuccess(username, password) ==
    LET uid == UserByName(username) IN
    /\ uid # NULL
    /\ ~users[uid].permanent_lock
    /\ ~(users[uid].locked_until # NULL /\ users[uid].locked_until > now)
    /\ verify_password(password, users[uid].password_hash)
    /\ Len(sessions) < MaxSessions
    /\ users' = [users EXCEPT ![uid].failed_login_attempts = 0,
                              ![uid].locked_until = NULL,
                              ![uid].last_login = now]
    /\ sessions' = Append(sessions,
           [user_id |-> uid, token_hash |-> generate_session_token,
            expires_at |-> now + SESSION_EXPIRE_HOURS, is_active |-> TRUE])
    /\ login_history' = login_history (+)
           SetToBag({HistoryRow(uid, TRUE, "none")})
    /\ last' = Served("login", username, password, NoToken, uid,
                      500, "internal-server-error", NULL, NULL)

login(username, password) ==
    /\ \/ LoginUnknown(username, password)
       \/ LoginPermanentLock(username, password)
       \/ LoginTemporaryLock(username, password)
       \/ LoginBadPassword(username, password)
       \/ LoginSuccess(username, password)
    /\ UNCHANGED <<now, inflight, reset_requests>>

(* ---------------- app/api/auth.py: register_user ----------------------- *)
\* POST /api/register takes no session; is_admin comes from the body
\* (UserCreate.is_admin, default False) and is stored as sent
register_user(username, password, is_admin) ==
    /\ IF UserByName(username) # NULL
       THEN /\ last' = Served("register", username, password, NoToken, NULL,
                              400, "username-taken", NULL, NULL)
            /\ UNCHANGED users
       ELSE /\ Len(users) < MaxUsers
            /\ users' = Append(users, NewUser(username, password, is_admin))
            /\ last' = Served("register", username, password, NoToken,
                              Len(users) + 1, 200, "registered",
                              Len(users) + 1, NULL)
    /\ UNCHANGED <<now, inflight, sessions, login_history, reset_requests>>

(* ---------------- app/api/auth.py: logout ------------------------------ *)
\* a logout that deletes the session row
logout_DeletesRow(token) ==
    /\ IF token # NoToken /\ SessionByToken(token) # NULL
       THEN sessions' = [i \in 1..(Len(sessions) - 1) |->
                           IF i < SessionByToken(token)
                           THEN sessions[i] ELSE sessions[i + 1]]
       ELSE UNCHANGED sessions
    /\ last' = Served("logout", "", "", token, NULL,
                      500, "internal-server-error", NULL, NULL)
    /\ UNCHANGED <<now, inflight, users, login_history, reset_requests>>

\* The session row is looked up by token alone and its change is committed
\* (auth.py:188); `"user" in request.session` (auth.py:199) then raises for
\* want of a SessionMiddleware, for every cookie value.
logout(token) ==
    /\ IF token # NoToken /\ SessionByToken(token) # NULL
       THEN sessions' = [sessions EXCEPT ![SessionByToken(token)].is_active = FALSE]
       ELSE UNCHANGED sessions
    /\ last' = Served("logout", "", "", token, NULL,
                      500, "internal-server-error", NULL, NULL)
    /\ UNCHANGED <<now, inflight, users, login_history, reset_requests>>

(* ---------------- app/api/auth.py: request_password_reset -------------- *)
\* For a known username the handler reaches ResetRequest(...) (auth.py:224),
\* a name auth.py does not import: NameError, nothing is inserted.
request_password_reset(username) ==
    /\ IF UserByName(username) = NULL
       THEN last' = Served("reset_request", username, "", NoToken, NULL,
                           200, "reset-request-sent", NULL, NULL)
       ELSE last' = Served("reset_request", username, "", NoToken,
                           UserByName(username),
                           500, "internal-server-error", NULL, NULL)
    /\ UNCHANGED <<now, inflight, users, sessions, login_history,
                   reset_requests>>

(* ---------------- session gate of app/api/users.py --------------------- *)
\* a session resolves only while its user is active and not locked
CurrentUser_ChecksUser(token) ==
    IF token = NoToken
    THEN [code |-> 401, detail |-> "not-authenticated", user |-> NULL]
    ELSE IF ValidSession(token) = NULL
    THEN [code |-> 401, detail |-> "session-invalid", user |-> NULL]
    ELSE IF sessions[ValidSession(token)].user_id \notin DOMAIN users
    THEN [code |-> 404, detail |-> "user-not-found", user |-> NULL]
    ELSE IF \/ ~users[sessions[ValidSession(token)].user_id].is_active
            \/ is_locked(users[sessions[ValidSession(token)].user_id])
    THEN [code |-> 401, detail |-> "session-invalid", user |-> NULL]
    ELSE [code |-> 200, detail |-> "ok",
          user |-> sessions[ValidSession(token)].user_id]

\* The first lines of change_password, get_user_profile, update_user_profile:
\* cookie, valid session row, owning user.
CurrentUser(token) ==
    IF token = NoToken
    THEN [code |-> 401, detail |-> "not-authenticated", user |-> NULL]
    ELSE IF ValidSession(token) = NULL
    THEN [code |-> 401, detail |-> "session-invalid", user |-> NULL]
    ELSE IF sessions[ValidSession(token)].user_id \notin DOMAIN users
    THEN [code |-> 404, detail |-> "user-not-found", user |-> NULL]
    ELSE [code |-> 200, detail |-> "ok",
          user |-> sessions[ValidSession(token)].user_id]

(* ---------------- app/api/admin.py: get_admin_user --------------------- *)
\* a gate that asks for a valid session and not for the administrator flag
get_admin_user_SkipsRoleCheck(token) ==
    IF token = NoToken
    THEN [code |-> 401, detail |-> "not-authenticated", user |-> NULL]
    ELSE IF ValidSession(token) = NULL
    THEN [code |-> 401, detail |-> "session-invalid", user |-> NULL]
    ELSE [code |-> 200, detail |-> "ok",
          user |-> sessions[ValidSession(token)].user_id]

get_admin_user(token) ==
    IF token = NoToken
    THEN [code |-> 401, detail |-> "not-authenticated", user |-> NULL]
    ELSE IF ValidSession(token) = NULL
    THEN [code |-> 401, detail |-> "session-invalid", user |-> NULL]
    ELSE IF \/ sessions[ValidSession(token)].user_id \notin DOMAIN users
            \/ ~users[sessions[ValidSession(token)].user_id].is_admin
    THEN [code |-> 403, detail |-> "admin-required", user |-> NULL]
    ELSE [code |-> 200, detail |-> "ok",
          user |-> sessions[ValidSession(token)].user_id]

\* a dependency or lookup refused the request: nothing is written
Refused(op, token, target, g) ==
    /\ last' = Served(op, "", "", token, target, g.code, g.detail, NULL, NULL)
    /\ UNCHANGED <<users, sessions, login_history, reset_requests>>

\* the same for a request with a body
RefusedBody(op, token, target, data, g) ==
    /\ last' = [Served(op, "", "", token, target, g.code, g.detail, NULL, NULL)
                EXCEPT !.payload = data]
    /\ UNCHANGED <<users, sessions, login_history, reset_requests>>

(* ---------------- app/api/users.py ------------------------------------- *)
get_user_profile(token) ==
    LET g == CurrentUser(token) IN
    /\ IF g.code # 200
       THEN Refused("get_profile", token, NULL, g)
       ELSE /\ last' = Served("get_profile", users[g.user].username, "", token,
                              NULL, 200, "profile", g.user, NULL)
            /\ UNCHANGED <<users, sessions, login_history, reset_requests>>
    /\ UNCHANGED <<now, inflight>>

change_password(token, current_password, new_password) ==
    LET g == CurrentUser(token) IN
    /\ IF g.code # 200
       THEN Refused("change_password", token, NULL, g)
       ELSE IF ~verify_password(current_password, users[g.user].password_hash)
       THEN /\ last' = Served("change_password", "", current_password, token,
                              NULL, 400, "current-password-wrong", g.user, NULL)
            /\ UNCHANGED <<users, sessions, login_history, reset_requests>>
       ELSE /\ users' = [users EXCEPT
                   ![g.user].password_hash = get_password_hash(new_password)]
            /\ last' = Served("change_password", "", current_password, token,
                              NULL, 200, "password-changed", g.user, NULL)
            /\ UNCHANGED <<sessions, login_history, reset_requests>>
    /\ UNCHANGED <<now, inflight>>

\* a payload field is a set: empty when the field is absent (None in the
\* UserUpdate schema, a missing key in the admin dict), else its value
Has(field) == field # {}
Val(field) == CHOOSE v \in field : TRUE

OptBool == {{}, {TRUE}, {FALSE}}

\* a profile update that applies is_admin and is_active as the body has them
update_user_profile_TrustsBody(token, data) ==
    LET g == CurrentUser(token) IN
    /\ IF g.code # 200
       THEN RefusedBody("update_profile", token, NULL, data, g)
       ELSE
         LET user == users[g.user]
             rename == Has(data.username) /\ Val(data.username) # user.username
         IN
         IF rename /\ UserByName(Val(data.username)) # NULL
         THEN /\ last' = [Served("update_profile", Val(data.username), "",
                                 token, NULL, 400, "username-taken", g.user,
                                 NULL)
                          EXCEPT !.payload = data]
              /\ UNCHANGED <<users, sessions, login_history, reset_requests>>
         ELSE
           LET u3 == [user EXCEPT
                        !.username = IF rename THEN Val(data.username) ELSE @,
                        !.is_admin = IF Has(data.is_admin)
                                     THEN Val(data.is_admin) ELSE @,
                        !.is_active = IF Has(data.is_active)
                                      THEN Val(data.is_active) ELSE @]
           IN
           /\ users' = [users EXCEPT ![g.user] = u3]
           /\ last' = [Served("update_profile", u3.username, "", token,
                              NULL, 200, "profile-updated", g.user, NULL)
                       EXCEPT !.payload = data]
           /\ UNCHANGED <<sessions, login_history, reset_requests>>
    /\ UNCHANGED <<now, inflight>>

update_user_profile(token, data) ==
    LET g == CurrentUser(token) IN
    /\ IF g.code # 200
       THEN RefusedBody("update_profile", token, NULL, data, g)
       ELSE
         LET user == users[g.user]
             \* users.py:167-169
             adm == IF ~user.is_admin THEN {} ELSE data.is_admin
             act == IF ~user.is_admin THEN {} ELSE data.is_active
             rename == Has(data.username) /\ Val(data.username) # user.username
         IN
         IF rename /\ UserByName(Val(data.username)) # NULL
         THEN /\ last' = [Served("update_profile", Val(data.username), "",
                                 token, NULL, 400, "username-taken", g.user,
                                 NULL)
                          EXCEPT !.payload = data]
              /\ UNCHANGED <<users, sessions, login_history, reset_requests>>
         ELSE
           LET u1 == IF rename
                     THEN [user EXCEPT !.username = Val(data.username)]
                     ELSE user
               u2 == IF Has(adm) /\ u1.is_admin
                     THEN [u1 EXCEPT !.is_admin = Val(adm)]
                     ELSE u1
               \* users.py:192 reads is_admin after users.py:189 has written it
               u3 == IF Has(act) /\ u2.is_admin
                     THEN [u2 EXCEPT !.is_active = Val(act)]
                     ELSE u2
           IN
           /\ users' = [users EXCEPT ![g.user] = u3]
           /\ last' = [Served("update_profile", u3.username, "", token,
                              NULL, 200, "profile-updated", g.user, NULL)
                       EXCEPT !.payload = data]
           /\ UNCHANGED <<sessions, login_history, reset_requests>>
    /\ UNCHANGED <<now, inflight>>

(* ---------------- app/api/admin.py ------------------------------------- *)
\* list_users, list_reset_requests, get_admin_stats: reads behind the gate
admin_read(token) ==
    LET g == get_admin_user(token) IN
    /\ IF g.code # 200
       THEN Refused("admin_read", token, NULL, g)
       ELSE /\ last' = Served("admin_read", "", "", token, NULL,
                              200, "listing", g.user, NULL)
            /\ UNCHANGED <<users, sessions, login_history, reset_requests>>
    /\ UNCHANGED <<now, inflight>>

get_user(token, user_id) ==
    LET g == get_admin_user(token) IN
    /\ IF g.code # 200
       THEN Refused("get_user", token, user_id, g)
       ELSE IF user_id \notin DOMAIN users
       THEN Refused("get_user", token, user_id,
                    [code |-> 404, detail |-> "user-not-found"])
       ELSE /\ last' = Served("get_user", users[user_id].username, "", token,
                              user_id, 200, "user", g.user, NULL)
            /\ UNCHANGED <<users, sessions, login_history, reset_requests>>
    /\ UNCHANGED <<now, inflight>>

\* A JSON body carries no datetime: a locked_until that is not null is a
\* string or a number, which the DateTime column rejects when the row is
\* flushed at commit (admin.py:158); the request ends in 500, nothing is kept.
BadDate == -2

update_user(token, user_id, user_data) ==
    LET g == get_admin_user(token) IN
    /\ IF g.code # 200
       THEN RefusedBody("update_user", token, user_id, user_data, g)
       ELSE IF user_id \notin DOMAIN users
       THEN RefusedBody("update_user", token, user_id, user_data,
                        [code |-> 404, detail |-> "user-not-found"])
       ELSE
         LET user == users[user_id]
             rename == /\ Has(user_data.username)
                       /\ Val(user_data.username) # user.username
         IN
         IF rename /\ UserByName(Val(user_data.username)) # NULL
         THEN RefusedBody("update_user", token, user_id, user_data,
                          [code |-> 400, detail |-> "username-taken"])
         ELSE IF Has(user_data.locked_until) /\ Val(user_data.locked_until) # NULL
         THEN RefusedBody("update_user", token, user_id, user_data,
                          [code |-> 500, detail |-> "internal-server-error"])
         ELSE
           /\ users' = [users EXCEPT ![user_id] =
                 [user EXCEPT
                    !.username = IF rename THEN Val(user_data.username) ELSE @,
                    !.is_admin = IF Has(user_data.is_admin)
                                 THEN Val(user_data.is_admin) ELSE @,
                    !.is_active = IF Has(user_data.is_active)
                                  THEN Val(user_data.is_active) ELSE @,
                    !.permanent_lock = IF Has(user_data.permanent_lock)
                                       THEN Val(user_data.permanent_lock) ELSE @,
                    !.locked_until = IF Has(user_data.locked_until)
                                     THEN Val(user_data.locked_until) ELSE @]]
           /\ last' = [Served("update_user", "", "", token, user_id,
                              200, "user-updated", g.user, NULL)
                       EXCEPT !.payload = user_data]
           /\ UNCHANGED <<sessions, login_history, reset_requests>>
    /\ UNCHANGED <<now, inflight>>

\* generate_password(length): a fresh random passphrase
generate_password == "generated"

\* a password reset that leaves the temporary lock in place
reset_user_password_KeepsLock(token, user_id, generate, new_password) ==
    LET g == get_admin_user(token)
        Answer(code, detail, user, plaintext) ==
            [Served("reset_password", "", new_password, token, user_id,
                    code, detail, user, NULL)
             EXCEPT !.generate = generate, !.new_password = plaintext]
    IN
    /\ IF g.code # 200
       THEN /\ last' = Answer(g.code, g.detail, NULL, NoPassword)
            /\ UNCHANGED <<users, sessions, login_history, reset_requests>>
       ELSE IF user_id \notin DOMAIN users
       THEN /\ last' = Answer(404, "user-not-found", NULL, NoPassword)
            /\ UNCHANGED <<users, sessions, login_history, reset_requests>>
       ELSE
         LET pw == IF generate THEN generate_password ELSE new_password IN
         IF pw = NoPassword
         THEN /\ last' = Answer(500, "internal-server-error", NULL, NoPassword)
              /\ UNCHANGED <<users, sessions, login_history, reset_requests>>
         ELSE
           /\ users' = [users EXCEPT
                 ![user_id].password_hash = get_password_hash(pw),
                 ![user_id].failed_login_attempts = 0]
           /\ last' = Answer(200, "password-reset", g.user,
                             IF generate THEN pw ELSE NoPassword)
           /\ UNCHANGED <<sessions, login_history, reset_requests>>
    /\ UNCHANGED <<now, inflight>>

reset_user_password(token, user_id, generate, new_password) ==
    LET g == get_admin_user(token)
        Answer(code, detail, user, plaintext) ==
            [Served("reset_password", "", new_password, token, user_id,
                    code, detail, user, NULL)
             EXCEPT !.generate = generate, !.new_password = plaintext]
    IN
    /\ IF g.code # 200
       THEN /\ last' = Answer(g.code, g.detail, NULL, NoPassword)
            /\ UNCHANGED <<users, sessions, login_history, reset_requests>>
       ELSE IF user_id \notin DOMAIN users
       THEN /\ last' = Answer(404, "user-not-found", NULL, NoPassword)
            /\ UNCHANGED <<users, sessions, login_history, reset_requests>>
       ELSE
         LET pw == IF generate THEN generate_password ELSE new_password IN
         IF pw = NoPassword
         THEN /\ last' = Answer(500, "internal-server-error", NULL, NoPassword)
              /\ UNCHANGED <<users, sessions, login_history, reset_requests>>
         ELSE
           /\ users' = [users EXCEPT
                 ![user_id].password_hash = get_password_hash(pw),
                 ![user_id].failed_login_attempts = 0,
                 ![user_id].locked_until = NULL]
           /\ last' = Answer(200, "password-reset", g.user,
                             IF generate THEN pw ELSE NoPassword)
           /\ UNCHANGED <<sessions, login_history, reset_requests>>
    /\ UNCHANGED <<now, inflight>>

\* an approval that resets the counter and leaves locked_until in place
update_reset_request_KeepsLock(token, request_id, status) ==
    LET g == get_admin_user(token) IN
    /\ IF g.code # 200
       THEN Refused("resolve", token, request_id, g)
       ELSE IF request_id \notin DOMAIN reset_requests
       THEN Refused("resolve", token, request_id,
                    [code |-> 404, detail |-> "request-not-found"])
       ELSE IF reset_requests[request_id].status # "pending"
       THEN Refused("resolve", token, request_id,
                    [code |-> 400, detail |-> "already-processed"])
       ELSE
         LET uid == reset_requests[request_id].user_id IN
         /\ reset_requests' = [reset_requests EXCEPT
               ![request_id].status = status,
               ![request_id].resolved_by = g.user,
               ![request_id].resolved_at = now]
         /\ IF status = "approved" /\ uid \in DOMAIN users
            THEN users' = [users EXCEPT ![uid].failed_login_attempts = 0]
            ELSE UNCHANGED users
         /\ last' = [Served("resolve", "", "", token, request_id,
                            200, "request-updated", g.user, NULL)
                        EXCEPT !.status = status]
         /\ UNCHANGED <<sessions, login_history>>
    /\ UNCHANGED <<now, inflight>>

\* an approval that lifts the permanent lock along with the temporary one
update_reset_request_LiftsPermanentLock(token, request_id, status) ==
    LET g == get_admin_user(token) IN
    /\ IF g.code # 200
       THEN Refused("resolve", token, request_id, g)
       ELSE IF request_id \notin DOMAIN reset_requests
       THEN Refused("resolve", token, request_id,
                    [code |-> 404, detail |-> "request-not-found"])
       ELSE IF reset_requests[request_id].status # "pending"
       THEN Refused("resolve", token, request_id,
                    [code |-> 400, detail |-> "already-processed"])
       ELSE
         LET uid == reset_requests[request_id].user_id IN
         /\ reset_requests' = [reset_requests EXCEPT
               ![request_id].status = status,
               ![request_id].resolved_by = g.user,
               ![request_id].resolved_at = now]
         /\ IF status = "approved" /\ uid \in DOMAIN users
            THEN users' = [users EXCEPT ![uid].failed_login_attempts = 0,
                                        ![uid].locked_until = NULL,
                                        ![uid].permanent_lock = FALSE]
            ELSE UNCHANGED users
         /\ last' = [Served("resolve", "", "", token, request_id,
                            200, "request-updated", g.user, NULL)
                        EXCEPT !.status = status]
         /\ UNCHANGED <<sessions, login_history>>
    /\ UNCHANGED <<now, inflight>>

\* ResetRequestUpdate.status is any string (schemas.py:80-82).  The request
\* row is committed first (admin.py:274), the user row after it (admin.py:286).
update_reset_request(token, request_id, status) ==
    LET g == get_admin_user(token) IN
    /\ IF g.code # 200
       THEN Refused("resolve", token, request_id, g)
       ELSE IF request_id \notin DOMAIN reset_requests
       THEN Refused("resolve", token, request_id,
                    [code |-> 404, detail |-> "request-not-found"])
       ELSE IF reset_requests[request_id].status # "pending"
       THEN Refused("resolve", token, request_id,
                    [code |-> 400, detail |-> "already-processed"])
       ELSE
         LET uid == reset_requests[request_id].user_id IN
         /\ reset_requests' = [reset_requests EXCEPT
               ![request_id].status = status,
               ![request_id].resolved_by = g.user,
               ![request_id].resolved_at = now]
         /\ IF status = "approved" /\ uid \in DOMAIN users
            THEN users' = [users EXCEPT ![uid].failed_login_attempts = 0,
                                        ![uid].locked_until = NULL]
            ELSE UNCHANGED users
         /\ last' = [Served("resolve", "", "", token, request_id,
                            200, "request-updated", g.user, NULL)
                        EXCEPT !.status = status]
         /\ UNCHANGED <<sessions, login_history>>
    /\ UNCHANGED <<now, inflight>>

(* ---------------- app/core/security.py: generate_password -------------- *)
\* the character sets of security.py:25-30, a character being a string of
\* length one
lowercase == <<"a", "b", "c", "d", "e", "f", "g", "h", "i", "j", "k", "m",
               "n", "o", "p", "q", "r", "s", "t", "u", "v", "w", "x", "y",
               "z">>
uppercase == <<"A", "B", "C", "D", "E", "F", "G", "H", "J", "K", "L", "M",
               "N", "P", "Q", "R", "S", "T", "U", "V", "W", "X", "Y", "Z">>
digits == <<"2", "3", "4", "5", "6", "7", "8", "9">>
alphabet == lowercase \o uppercase \o digits

Chars(s) == {s[k] : k \in DOMAIN s}
lowercase_chars == Chars(lowercase)
uppercase_chars == Chars(uppercase)
digit_chars == Chars(digits)

\* secrets.choice(alphabet), the k-th draw from a source of randomness: the
\* sources of the model walk through the alphabet from a seed by a stride
Sources == [seed : 0..MaxSeed, stride : {0, 1, 8}]
choice(source, k) ==
    alphabet[((source.seed + k * source.stride) % Len(alphabet)) + 1]

\* security.py:34: the candidate, length draws joined
generate_password_candidate(length, source) ==
    [k \in 1..length |-> choice(source, k)]

\* the loop test with nothing to test
generate_password_accepts_Any(password) == TRUE

\* security.py:35-37: the test that ends the loop
generate_password_accepts(password) ==
    /\ \E k \in DOMAIN password : password[k] \in lowercase_chars
    /\ \E k \in DOMAIN password : password[k] \in uppercase_chars
    /\ \E k \in DOMAIN password : password[k] \in digit_chars

\* PasswordGenerateRequest.length (schemas.py:115)
Lengths == 32..128

(* ---------------- app/api/users.py: generate_secure_password ----------- *)
\* The loop of generate_password draws again until a candidate passes: what
\* is returned is a candidate that passes.
generate_secure_password(length, source) ==
    \E password \in {generate_password_candidate(length, source)} :
    /\ generate_password_accepts(password) = TRUE
    /\ last' = [Served("generate_password", "", "", NoToken, length,
                       200, "password", NULL, NULL)
                EXCEPT !.new_password = password]
    /\ UNCHANGED <<now, inflight, users, sessions, login_history,
                   reset_requests>>

(* ---------------- handlers, await by await ----------------------------- *)
\* What follows takes the handlers apart at their awaits.  Between the query
\* that loads a row and the commit that writes it back the other requests
\* run; the values loaded into the ORM object are those of the query.

\* call p has its response
Answered(p, code, detail) ==
    inflight' = [inflight EXCEPT ![p] =
                    [@ EXCEPT !.phase = "done", !.code = code, !.detail = detail]]

\* the connection is lost, the task is cancelled or the server stops while
\* call p waits at an await: get_db closes the session, what was committed
\* stays, nothing more is written
Abandon(p) ==
    /\ inflight[p].phase \notin {"idle", "done"}
    /\ Answered(p, 0, "abandoned")
    /\ UNCHANGED <<now, users, sessions, login_history, reset_requests, last>>

\* the response of call p has been delivered
Retire(p) ==
    /\ inflight[p].phase = "done"
    /\ inflight' = [inflight EXCEPT ![p] = Idle]
    /\ UNCHANGED <<now, users, sessions, login_history, reset_requests, last>>

\* update_reset_request up to its first commit: the dependency, the query
\* of admin.py:253 and the two checks on what it returned
ResolveRead(p, token, request_id, status) ==
    LET g == get_admin_user(token)
        call == [op |-> "resolve", phase |-> "read", token |-> token,
                 target |-> request_id, status |-> status, admin |-> g.user,
                 code |-> 0, detail |-> "none"]
    IN
    /\ inflight[p] = Idle
    /\ inflight' = [inflight EXCEPT ![p] =
          IF g.code # 200
          THEN [call EXCEPT !.phase = "done", !.code = g.code,
                            !.detail = g.detail]
          ELSE IF request_id \notin DOMAIN reset_requests
          THEN [call EXCEPT !.phase = "done", !.code = 404,
                            !.detail = "request-not-found"]
          ELSE IF reset_requests[request_id].status # "pending"
          THEN [call EXCEPT !.phase = "done", !.code = 400,
                            !.detail = "already-processed"]
          ELSE call]
    /\ UNCHANGED <<now, users, sessions, login_history, reset_requests, last>>

\* admin.py:270-274: the request row is written and committed
ResolveCommitRequest(p) ==
    LET call == inflight[p] IN
    /\ call.phase = "read" /\ call.op = "resolve"
    /\ reset_requests' = [reset_requests EXCEPT
          ![call.target].status = call.status,
          ![call.target].resolved_by = call.admin,
          ![call.target].resolved_at = now]
    /\ IF call.status = "approved"
       THEN inflight' = [inflight EXCEPT ![p].phase = "request-committed"]
       ELSE Answered(p, 200, "request-updated")
    /\ UNCHANGED <<now, users, sessions, login_history, last>>

\* admin.py:277-286: the user row is loaded, unlocked and committed
ResolveCommitUser(p) ==
    LET call == inflight[p]
        uid == reset_requests[call.target].user_id
    IN
    /\ call.phase = "request-committed" /\ call.op = "resolve"
    /\ IF uid \in DOMAIN users
       THEN users' = [users EXCEPT ![uid].failed_login_attempts = 0,
                                   ![uid].locked_until = NULL]
       ELSE UNCHANGED users
    /\ Answered(p, 200, "request-updated")
    /\ UNCHANGED <<now, sessions, login_history, reset_requests, last>>

\* The UPDATE a commit sends for a loaded row sets the columns whose
\* attribute was assigned a value other than the loaded one, to the value
\* assigned; the other columns of the stored row stay as they are.
Flush(stored, loaded, assigned) ==
    [f \in DOMAIN stored |->
        IF assigned[f] = loaded[f] THEN stored[f] ELSE assigned[f]]

\* login up to the query of auth.py:51: row is what the query returned
LoginRead(p, username, password) ==
    LET uid == UserByName(username) IN
    /\ inflight[p] = Idle
    /\ inflight' = [inflight EXCEPT ![p] =
          [op |-> "login", phase |-> "read", username |-> username,
           password |-> password, target |-> uid,
           row |-> IF uid = NULL THEN <<>> ELSE <<users[uid]>>,
           code |-> 0, detail |-> "none"]]
    /\ UNCHANGED <<now, users, sessions, login_history, reset_requests, last>>

\* auth.py:55-143: the branch is chosen and the new values are computed from
\* the loaded row, then the one commit of the branch writes them
LoginCommit(p) ==
    LET call == inflight[p]
        uid == call.target
    IN
    /\ call.phase = "read" /\ call.op = "login"
    /\ IF call.row = <<>>
       THEN /\ login_history' = login_history (+)
                   SetToBag({HistoryRow(NULL, FALSE, "unknown-user")})
            /\ Answered(p, 401, "auth-failed")
            /\ UNCHANGED <<users, sessions>>
       ELSE
         LET user == call.row[1] IN
         IF user.permanent_lock
         THEN /\ login_history' = login_history (+)
                     SetToBag({HistoryRow(uid, FALSE, "permanent-lock")})
              /\ Answered(p, 401, "locked-contact-admin")
              /\ UNCHANGED <<users, sessions>>
         ELSE IF user.locked_until # NULL /\ user.locked_until > now
         THEN /\ login_history' = login_history (+)
                     SetToBag({HistoryRow(uid, FALSE, "temporary-lock")})
              /\ Answered(p, 401, "locked-retry-later")
              /\ UNCHANGED <<users, sessions>>
         ELSE IF ~verify_password(call.password, user.password_hash)
         THEN LET n == user.failed_login_attempts + 1 IN
              /\ users' = [users EXCEPT ![uid] = Flush(@, user,
                    IF n >= FAIL_LOCK_ATTEMPTS
                    THEN [user EXCEPT
                            !.failed_login_attempts = n,
                            !.locked_until = now + FAIL_LOCK_DURATION_HOURS]
                    ELSE [user EXCEPT !.failed_login_attempts = n])]
              /\ login_history' = login_history (+)
                     SetToBag({HistoryRow(uid, FALSE,
                        IF n >= FAIL_LOCK_ATTEMPTS
                        THEN "bad-credential-now-locked"
                        ELSE "bad-credential")})
              /\ Answered(p, 401, "auth-failed")
              /\ UNCHANGED sessions
         ELSE /\ Len(sessions) < MaxSessions
              /\ users' = [users EXCEPT ![uid] = Flush(@, user,
                    [user EXCEPT !.failed_login_attempts = 0,
                                 !.locked_until = NULL,
                                 !.last_login = now])]
              /\ sessions' = Append(sessions,
                    [user_id |-> uid, token_hash |-> generate_session_token,
                     expires_at |-> now + SESSION_EXPIRE_HOURS,
                     is_active |-> TRUE])
              /\ login_history' = login_history (+)
                     SetToBag({HistoryRow(uid, TRUE, "none")})
              /\ Answered(p, 500, "internal-server-error")
    /\ UNCHANGED <<now, reset_requests, last>>

\* users.username is declared unique (models.py:12): the store refuses an
\* INSERT or UPDATE that would give a second row the name.  No handler
\* catches the IntegrityError, the request ends in 500 and writes nothing.
NameHeldByOther(uid, name) ==
    \E j \in DOMAIN users : j # uid /\ users[j].username = name

\* register_user up to the query of auth.py:19 and the check on its result
RegisterRead(p, username, password, is_admin) ==
    LET call == [op |-> "register", phase |-> "read", username |-> username,
                 target |-> NULL, row |-> <<>>,
                 assigned |-> <<NewUser(username, password, is_admin)>>,
                 code |-> 0, detail |-> "none"]
    IN
    /\ inflight[p] = Idle
    /\ inflight' = [inflight EXCEPT ![p] =
          IF UserByName(username) # NULL
          THEN [call EXCEPT !.phase = "done", !.code = 400,
                            !.detail = "username-taken"]
          ELSE call]
    /\ UNCHANGED <<now, users, sessions, login_history, reset_requests, last>>

\* auth.py:36-40: the INSERT and its commit
RegisterCommit(p) ==
    LET call == inflight[p] IN
    /\ call.phase = "read" /\ call.op = "register"
    /\ IF NameHeldByOther(NULL, call.username)
       THEN /\ Answered(p, 500, "internal-server-error")
            /\ UNCHANGED users
       ELSE /\ Len(users) < MaxUsers
            /\ users' = Append(users, call.assigned[1])
            /\ Answered(p, 200, "registered")
    /\ UNCHANGED <<now, sessions, login_history, reset_requests, last>>

\* update_user up to its commit: the dependency, the queries of admin.py:116
\* and admin.py:130, and the assignments of admin.py:139-155 to the loaded row
UpdateUserRead(p, token, user_id, user_data) ==
    LET g == get_admin_user(token)
        name == IF Has(user_data.username) THEN Val(user_data.username) ELSE ""
        call == [op |-> "update_user", phase |-> "read", username |-> name,
                 target |-> user_id, row |-> <<>>, assigned |-> <<>>,
                 code |-> 0, detail |-> "none"]
    IN
    /\ inflight[p] = Idle
    /\ inflight' = [inflight EXCEPT ![p] =
          IF g.code # 200
          THEN [call EXCEPT !.phase = "done", !.code = g.code,
                            !.detail = g.detail]
          ELSE IF user_id \notin DOMAIN users
          THEN [call EXCEPT !.phase = "done", !.code = 404,
                            !.detail = "user-not-found"]
          ELSE
            LET user == users[user_id]
                rename == Has(user_data.username) /\ name # user.username
            IN
            IF rename /\ UserByName(name) # NULL
            THEN [call EXCEPT !.phase = "done", !.code = 400,
                              !.detail = "username-taken"]
            ELSE [call EXCEPT
                    !.row = <<user>>,
                    !.assigned = <<[user EXCEPT
                       !.username = IF rename THEN name ELSE @,
                       !.is_admin = IF Has(user_data.is_admin)
                                    THEN Val(user_data.is_admin) ELSE @,
                       !.is_active = IF Has(user_data.is_active)
                                     THEN Val(user_data.is_active) ELSE @,
                       !.permanent_lock = IF Has(user_data.permanent_lock)
                                          THEN Val(user_data.permanent_lock)
                                          ELSE @,
                       !.locked_until = IF Has(user_data.locked_until)
                                        THEN Val(user_data.locked_until)
                                        ELSE @]>>]]
    /\ UNCHANGED <<now, users, sessions, login_history, reset_requests, last>>

\* update_user_profile up to its commit: the session gate, the query of
\* users.py:176 and the assignments of users.py:166-193 to the loaded row
UpdateProfileRead(p, token, data) ==
    LET g == CurrentUser(token)
        name == IF Has(data.username) THEN Val(data.username) ELSE ""
        call == [op |-> "update_profile", phase |-> "read", username |-> name,
                 target |-> g.user, row |-> <<>>, assigned |-> <<>>,
                 code |-> 0, detail |-> "none"]
    IN
    /\ inflight[p] = Idle
    /\ inflight' = [inflight EXCEPT ![p] =
          IF g.code # 200
          THEN [call EXCEPT !.phase = "done", !.code = g.code,
                            !.detail = g.detail]
          ELSE
            LET user == users[g.user]
                adm == IF ~user.is_admin THEN {} ELSE data.is_admin
                act == IF ~user.is_admin THEN {} ELSE data.is_active
                rename == Has(data.username) /\ name # user.username
                u1 == IF rename THEN [user EXCEPT !.username = name] ELSE user
                u2 == IF Has(adm) /\ u1.is_admin
                      THEN [u1 EXCEPT !.is_admin = Val(adm)]
                      ELSE u1
                u3 == IF Has(act) /\ u2.is_admin
                      THEN [u2 EXCEPT !.is_active = Val(act)]
                      ELSE u2
            IN
            IF rename /\ UserByName(name) # NULL
            THEN [call EXCEPT !.phase = "done", !.code = 400,
                              !.detail = "username-taken"]
            ELSE [call EXCEPT !.row = <<user>>, !.assigned = <<u3>>]]
    /\ UNCHANGED <<now, users, sessions, login_history, reset_requests, last>>

\* admin.py:157-160, users.py:195-198: the UPDATE and its commit
UpdateCommit(p) ==
    LET call == inflight[p] IN
    /\ call.phase = "read" /\ call.op \in {"update_user", "update_profile"}
    /\ LET loaded == call.row[1]
           assigned == call.assigned[1]
       IN
       IF \/ assigned.locked_until = BadDate
          \/ /\ assigned.username # loaded.username
             /\ NameHeldByOther(call.target, assigned.username)
       THEN /\ Answered(p, 500, "internal-server-error")
            /\ UNCHANGED users
       ELSE /\ users' = [users EXCEPT
                            ![call.target] = Flush(@, loaded, assigned)]
            /\ Answered(p, 200, "updated")
    /\ UNCHANGED <<now, sessions, login_history, reset_requests, last>>

(* ---------------- inputs ----------------------------------------------- *)
\* credentials submitted to POST /api/login: the administrator, the user
\* with the right and with a wrong passphrase, a username nobody has
LoginInputs == {<<"root", "pw1">>, <<"alice", "pw1">>, <<"alice", "pw2">>,
                <<"ghost", "pw1">>}

\* bodies of PUT /api/admin/users/{id} that set or lift a lock
LockPayloads ==
    {[NoChange EXCEPT !.permanent_lock = {b}] : b \in BOOLEAN}
    \cup {[NoChange EXCEPT !.locked_until = {v}] : v \in {NULL, BadDate}}

StatusInputs == {"approved", "rejected", "pending", "closed"}

IssuedTokens == 1..MaxSessions
RequestIdInputs == 1..(MaxRequests + 1)

\* bodies of PUT /api/users/profile (UserUpdate)
ProfilePayloads ==
    [username : {{}, {"carol"}}, is_admin : OptBool, is_active : OptBool]

\* bodies of PUT /api/admin/users/{id} with and without permanent_lock
PermanentPayloads ==
    {[NoChange EXCEPT !.permanent_lock = {b}] : b \in BOOLEAN}
    \cup {[NoChange EXCEPT !.locked_until = {NULL}]}

\* bodies of PUT /api/admin/users/{id}: no field, each field alone (the
\* names are the user's own, the administrator's and a free one), a taken
\* name along with other fields, and all five fields
UpdatePayloads ==
    {NoChange}
    \cup {[NoChange EXCEPT !.username = {n}] : n \in {"alice", "root", "carol"}}
    \cup {[NoChange EXCEPT !.is_admin = {TRUE}],
          [NoChange EXCEPT !.is_active = {FALSE}],
          [NoChange EXCEPT !.permanent_lock = {TRUE}]}
    \cup {[NoChange EXCEPT !.locked_until = {v}] : v \in {NULL, BadDate}}
    \cup {[NoChange EXCEPT !.username = {"root"}, !.is_admin = {TRUE},
                           !.permanent_lock = {TRUE}],
          [username |-> {"carol"}, is_admin |-> {TRUE}, is_active |-> {FALSE},
           permanent_lock |-> {TRUE}, locked_until |-> {NULL}]}

(* ---------------- specifications --------------------------------------- *)
\* login and lockout, with the administrator's locks
NextLogin ==
    \/ Tick(LockInstants)
    \/ \E c \in LoginInputs : HistoryCount < MaxHistory /\ login(c[1], c[2])
    \/ \E t \in IssuedTokens, d \in LockPayloads : update_user(t, 2, d)

SpecLogin == Init /\ [][NextLogin]_vars

\* sessions: issue, present to every protected operation, log out
NextSession ==
    \/ Tick(SessionInstants)
    \/ \E c \in {<<"root", "pw1">>, <<"alice", "pw1">>} :
          HistoryCount < MaxHistory /\ login(c[1], c[2])
    \/ \E t \in Tokens : logout(t)
    \/ \E t \in Tokens : get_user_profile(t)
    \/ \E t \in Tokens, c \in Passwords : change_password(t, c, "pw1")
    \/ \E t \in Tokens :
          update_user_profile(t, [username |-> {"alice"}, is_admin |-> {},
                                  is_active |-> {}])
    \/ \E t \in Tokens : admin_read(t)
    \/ \E t \in Tokens : get_user(t, 2)
    \/ \E t \in Tokens :
          update_user(t, 2, [NoChange EXCEPT !.is_active = {FALSE}])
    \/ \E t \in Tokens : reset_user_password(t, 2, FALSE, "pw1")
    \/ \E t \in Tokens : update_reset_request(t, 1, "rejected")

SpecSession == Init /\ [][NextSession]_vars

\* the reset-request workflow
NextReset ==
    \/ Tick(LockInstants)
    \/ \E c \in {<<"root", "pw1">>, <<"alice", "pw1">>, <<"alice", "pw2">>} :
          HistoryCount < MaxHistory /\ login(c[1], c[2])
    \/ \E u \in {"alice", "ghost"} : request_password_reset(u)
    \/ \E t \in IssuedTokens, i \in RequestIdInputs, s \in StatusInputs :
          update_reset_request(t, i, s)

SpecReset == Init /\ [][NextReset]_vars

\* the permanent lock under every operation that writes a user row
NextPermanent ==
    \/ \E c \in {<<"root", "pw1">>, <<"alice", "pw1">>} :
          HistoryCount < MaxHistory /\ login(c[1], c[2])
    \/ \E t \in IssuedTokens : logout(t)
    \/ request_password_reset("alice")
    \/ \E t \in IssuedTokens, s \in {"approved", "rejected"} :
          update_reset_request(t, 1, s)
    \/ \E t \in IssuedTokens : reset_user_password(t, 2, FALSE, "pw1")
    \/ \E t \in IssuedTokens : change_password(t, "pw1", "pw1")
    \/ \E t \in IssuedTokens :
          update_user_profile(t, [username |-> {}, is_admin |-> {},
                                  is_active |-> {TRUE}])
    \/ \E t \in IssuedTokens, d \in PermanentPayloads : update_user(t, 2, d)

SpecPermanent == Init /\ [][NextPermanent]_vars

\* resolutions of one reset request that overlap in time
NextResolveRace ==
    \/ \E c \in {<<"root", "pw1">>, <<"alice", "pw2">>} :
          HistoryCount < MaxHistory /\ login(c[1], c[2])
    \/ \E p \in Calls, t \in IssuedTokens, s \in {"approved", "rejected"} :
          ResolveRead(p, t, 1, s)
    \/ \E p \in Calls : ResolveCommitRequest(p)
    \/ \E p \in Calls : ResolveCommitUser(p)
    \/ \E p \in Calls : Abandon(p)
    \/ \E p \in Calls : Retire(p)

SpecResolveRace == Init /\ [][NextResolveRace]_vars

\* wrong-password logins of one user that overlap in time
NextLoginRace ==
    \/ \E p \in Calls, c \in {<<"alice", "pw2">>, <<"ghost", "pw1">>} :
          LoginRead(p, c[1], c[2])
    \/ \E p \in Calls : HistoryCount < MaxHistory /\ LoginCommit(p)
    \/ \E p \in Calls : Retire(p)

SpecLoginRace == Init /\ [][NextLoginRace]_vars

\* the name the registrations and the renames ask for
NameInputs == {"bob"}

\* registrations and renames that overlap in time
NextNames ==
    \/ \E c \in {<<"root", "pw1">>, <<"alice", "pw1">>} :
          HistoryCount < MaxHistory /\ login(c[1], c[2])
    \/ \E p \in Calls, n \in NameInputs : RegisterRead(p, n, "pw1", FALSE)
    \/ \E p \in Calls : RegisterCommit(p)
    \/ \E p \in Calls, t \in IssuedTokens, n \in NameInputs :
          UpdateUserRead(p, t, 2, [NoChange EXCEPT !.username = {n}])
    \/ \E p \in Calls, t \in IssuedTokens, n \in NameInputs :
          UpdateProfileRead(p, t, [username |-> {n}, is_admin |-> {},
                                   is_active |-> {}])
    \/ \E p \in Calls : UpdateCommit(p)
    \/ \E p \in Calls : Retire(p)

SpecNames == Init /\ [][NextNames]_vars

\* the administrator's update of a user
NextAdminUpdate ==
    \/ \E c \in {<<"root", "pw1">>, <<"alice", "pw2">>} :
          HistoryCount < MaxHistory /\ login(c[1], c[2])
    \/ \E t \in IssuedTokens, i \in {2, 3}, d \in UpdatePayloads :
          update_user(t, i, d)

SpecAdminUpdate == Init /\ [][NextAdminUpdate]_vars

\* the profile update of the user and of the administrator
NextProfile ==
    \/ \E c \in {<<"root", "pw1">>, <<"alice", "pw1">>} :
          HistoryCount < MaxHistory /\ login(c[1], c[2])
    \/ \E t \in Tokens, d \in ProfilePayloads : update_user_profile(t, d)

SpecProfile == Init /\ [][NextProfile]_vars

\* the administrator gate while the administrator flag is given and taken
NextAdminGate ==
    \/ \E c \in {<<"root", "pw1">>, <<"alice", "pw1">>} :
          HistoryCount < MaxHistory /\ login(c[1], c[2])
    \/ \E t \in Tokens : admin_read(t)
    \/ \E t \in Tokens : get_user(t, 2)
    \/ \E t \in Tokens, i \in {1, 2}, b \in BOOLEAN :
          update_user(t, i, [NoChange EXCEPT !.is_admin = {b}])
    \/ \E t \in Tokens : reset_user_password(t, 2, FALSE, "pw1")
    \/ \E t \in Tokens : update_reset_request(t, 1, "rejected")

SpecAdminGate == Init /\ [][NextAdminGate]_vars

\* the administrator's password reset of a user with failures and locks
NextSetPassword ==
    \/ \E c \in {<<"root", "pw1">>, <<"alice", "pw2">>} :
          HistoryCount < MaxHistory /\ login(c[1], c[2])
    \/ \E t \in IssuedTokens :
          update_user(t, 2, [NoChange EXCEPT !.permanent_lock = {TRUE}])
    \/ \E t \in IssuedTokens, i \in {2, 3}, generate \in BOOLEAN,
          new_password \in {"pw2", NoPassword} :
          reset_user_password(t, i, generate, new_password)

SpecSetPassword == Init /\ [][NextSetPassword]_vars

\* refused logins, with a permanent lock set on top of a temporary one
NextRefusal ==
    \/ \E c \in LoginInputs : HistoryCount <= MaxHistory /\ login(c[1], c[2])
    \/ \E t \in IssuedTokens, d \in PermanentPayloads : update_user(t, 2, d)

SpecRefusal == Init /\ [][NextRefusal]_vars

\* the lapse of a lock and the operations that clear the counter
NextLapse ==
    \/ Tick(LockInstants)
    \/ \E c \in {<<"root", "pw1">>, <<"alice", "pw1">>, <<"alice", "pw2">>} :
          HistoryCount < MaxHistory /\ login(c[1], c[2])
    \/ \E t \in IssuedTokens, s \in {"approved", "rejected"} :
          update_reset_request(t, 1, s)
    \/ \E t \in IssuedTokens : reset_user_password(t, 2, FALSE, "pw1")
    \/ \E t \in IssuedTokens :
          update_user(t, 2, [NoChange EXCEPT !.locked_until = {NULL}])

SpecLapse == Init /\ [][NextLapse]_vars

\* bodies of POST /api/register (UserCreate): a new and a taken username,
\* is_admin left at its default or set
RegisterInputs == {"bob", "alice"} \X BOOLEAN

\* bodies of PUT /api/user/profile that ask for the administrator role
PromotionPayloads ==
    {[username |-> {}, is_admin |-> {TRUE}, is_active |-> a] : a \in OptBool}

\* what can be requested without an administrator's session
NextRegister ==
    \/ \E r \in RegisterInputs : register_user(r[1], "pw1", r[2])
    \/ \E c \in {<<"alice", "pw1">>, <<"bob", "pw1">>} :
          HistoryCount < MaxHistory /\ login(c[1], c[2])
    \/ \E t \in IssuedTokens : logout(t)
    \/ request_password_reset("alice")
    \/ \E t \in IssuedTokens : change_password(t, "pw1", "pw1")
    \/ \E t \in IssuedTokens, d \in PromotionPayloads :
          update_user_profile(t, d)

SpecRegister == Init /\ [][NextRegister]_vars

\* bodies of PUT /api/admin/users/{id} that lock or deactivate the user
DisablePayloads ==
    {[NoChange EXCEPT !.permanent_lock = {TRUE}],
     [NoChange EXCEPT !.is_active = {FALSE}]}

\* sessions of a user that is locked, deactivated, given a password or has a
\* reset request resolved
NextHeldSession ==
    \/ \E c \in {<<"root", "pw1">>, <<"alice", "pw1">>, <<"alice", "pw2">>} :
          HistoryCount <= MaxHistory /\ login(c[1], c[2])
    \/ \E t \in IssuedTokens : get_user_profile(t)
    \/ \E t \in IssuedTokens, c \in Passwords : change_password(t, c, "pw1")
    \/ \E t \in IssuedTokens :
          update_user_profile(t, [username |-> {"alice"}, is_admin |-> {},
                                  is_active |-> {}])
    \/ \E t \in IssuedTokens, d \in DisablePayloads : update_user(t, 2, d)
    \/ \E t \in IssuedTokens : reset_user_password(t, 2, FALSE, "pw1")
    \/ \E t \in IssuedTokens, s \in {"approved", "rejected"} :
          update_reset_request(t, 1, s)

SpecHeldSession == Init /\ [][NextHeldSession]_vars

\* the passphrase generator on every length the request schema admits
NextGenerate ==
    \E length \in Lengths, source \in Sources :
        generate_secure_password(length, source)

SpecGenerate == Init /\ [][NextGenerate]_vars

(* ======================================================================= *)
(* Properties                                                              *)
(* ======================================================================= *)
\* a step that serves one request of the given kind (the clock stands still)
Serves(op) == now' = now /\ last'.op = op

\* what the client receives
Response(r) ==
    [code |-> r.code, detail |-> r.detail, user |-> r.user, minutes |-> r.minutes]

\* the error taxonomy at the boundary
InvalidCredentials ==
    [code |-> 401, detail |-> "auth-failed", user |-> NULL, minutes |-> NULL]
AccountLockedDetails == {"locked-contact-admin", "locked-retry-later"}

\* the login just served names user i
LoginFor(i) == Serves("login") /\ users[i].username = last'.username

TemporarilyLocked(u) == u.locked_until # NULL /\ u.locked_until > now
Locked(u) == u.permanent_lock \/ TemporarilyLocked(u)

CountRows(uid, ok, reason) == CopiesIn(HistoryRow(uid, ok, reason), login_history)

(* C1: every wrong-password login of a user that is not locked raises      *)
(* failed_login_attempts by one; when the count reaches FAIL_LOCK_ATTEMPTS *)
(* the user is_locked with locked_until = the time of that failure + the   *)
(* lock duration, and while the count is below it the user is not locked.  *)
(* From a count of 0 the N-th consecutive failure is the first to lock.    *)
C1_LockAtThreshold ==
    [][\A i \in DOMAIN users :
         (/\ LoginFor(i)
          /\ ~Locked(users[i])
          /\ ~verify_password(last'.password, users[i].password_hash))
         => /\ users'[i].failed_login_attempts
                  = users[i].failed_login_attempts + 1
            /\ users'[i].failed_login_attempts = FAIL_LOCK_ATTEMPTS
                  => /\ is_locked(users'[i])
                     /\ users'[i].locked_until = now + FAIL_LOCK_DURATION_HOURS
            /\ users'[i].failed_login_attempts < FAIL_LOCK_ATTEMPTS
                  => ~is_locked(users'[i])]_vars

\* the N-th failure has just been answered and the user is locked for 2 h
C1_Witness ==
    /\ last.op = "login" /\ last.target = 2 /\ last.detail = "auth-failed"
    /\ users[2].failed_login_attempts = FAIL_LOCK_ATTEMPTS
    /\ users[2].locked_until = now + FAIL_LOCK_DURATION_HOURS
    /\ CountRows(2, FALSE, "bad-credential") = FAIL_LOCK_ATTEMPTS - 1
    /\ CountRows(2, TRUE, "none") = 0
    /\ is_locked(users[2])

(* C2: a login for a user that is locked (permanent_lock, or locked_until  *)
(* in the future) is answered with AccountLocked, never with               *)
(* InvalidCredentials or success, whatever the passphrase, and inserts no  *)
(* session.                                                                *)
C2_LockedLoginRefused ==
    [][\A i \in DOMAIN users :
         (LoginFor(i) /\ Locked(users[i]))
         => /\ last'.code = 401
            /\ last'.detail \in AccountLockedDetails
            /\ Response(last') # InvalidCredentials
            /\ sessions' = sessions]_vars

\* the right passphrase was refused during the lock set by the 5th failure
C2_Witness ==
    /\ last.op = "login" /\ last.target = 2
    /\ last.detail = "locked-retry-later"
    /\ verify_password(last.password, users[2].password_hash)
    /\ users[2].failed_login_attempts = FAIL_LOCK_ATTEMPTS
    /\ TemporarilyLocked(users[2])

(* C3: a login of a known, unlocked user with the right passphrase sets    *)
(* failed_login_attempts = 0, locked_until = null, last_login = now and    *)
(* leaves permanent_lock as it was.                                        *)
C3_SuccessResetsCounters ==
    [][\A i \in DOMAIN users :
         (/\ LoginFor(i)
          /\ ~Locked(users[i])
          /\ verify_password(last'.password, users[i].password_hash))
         => /\ users'[i].failed_login_attempts = 0
            /\ users'[i].locked_until = NULL
            /\ users'[i].last_login = now
            /\ users'[i].permanent_lock = users[i].permanent_lock]_vars

\* a user whom failures had locked has logged in after the lock lapsed
C3_Witness ==
    /\ last.op = "login" /\ last.target = 2 /\ last.code # 401
    /\ CountRows(2, FALSE, "bad-credential-now-locked") > 0
    /\ CountRows(2, TRUE, "none") > 0
    /\ users[2].failed_login_attempts = 0
    /\ users[2].locked_until = NULL
    /\ users[2].last_login = now

(* C4: a login with a username nobody has and a login with a wrong         *)
(* passphrase for a known, unlocked user receive the same response (same   *)
(* status, same message), at every failed-attempt count, the failure that  *)
(* sets the lock included.                                                 *)
C4_SameInvalidCredentials ==
    [][(/\ Serves("login")
        /\ \/ \A i \in DOMAIN users : users[i].username # last'.username
           \/ \E i \in DOMAIN users :
                 /\ users[i].username = last'.username
                 /\ ~Locked(users[i])
                 /\ ~verify_password(last'.password, users[i].password_hash))
       => Response(last') = InvalidCredentials]_vars

\* the failure that set the lock was answered like an unknown username
C4_Witness ==
    /\ last.op = "login" /\ last.target = 2
    /\ Response(last) = InvalidCredentials
    /\ users[2].failed_login_attempts = FAIL_LOCK_ATTEMPTS
    /\ users[2].locked_until = now + FAIL_LOCK_DURATION_HOURS
    /\ CountRows(NULL, FALSE, "unknown-user") > 0

\* the operations behind the session gate
ProtectedOps == {"get_profile", "change_password", "update_profile",
                 "admin_read", "get_user", "update_user", "reset_password",
                 "resolve"}

\* a session row carries the token, is active and has not expired
TokenValid(token) ==
    \E i \in DOMAIN sessions :
        /\ sessions[i].token_hash = token
        /\ sessions[i].is_active
        /\ sessions[i].expires_at > now

\* the token of a valid session whose user is an administrator
AdminOf(token) ==
    {sessions[i].user_id : i \in {j \in DOMAIN sessions :
        /\ sessions[j].token_hash = token
        /\ sessions[j].is_active
        /\ sessions[j].expires_at > now
        /\ users[sessions[j].user_id].is_admin}}

(* C5: a protected operation (profile read, profile update, password       *)
(* change, every admin endpoint) served without a session row that carries *)
(* the presented token, is active and has expires_at > now answers 401     *)
(* Unauthenticated and writes nothing; so it proceeds only with such a row.*)
C5_SessionGate ==
    [][(/\ now' = now
        /\ last'.op \in ProtectedOps
        /\ ~TokenValid(last'.token))
       => /\ last'.code = 401
          /\ UNCHANGED <<users, sessions, login_history, reset_requests>>]_vars

\* a session still is_active whose expires_at has passed was refused
C5_Witness ==
    /\ last.op \in ProtectedOps
    /\ last.code = 401
    /\ \E i \in DOMAIN sessions :
          /\ sessions[i].token_hash = last.token
          /\ sessions[i].is_active
          /\ sessions[i].expires_at <= now

(* C6: logout answers success for a valid, a logged-out, an expired, an    *)
(* unknown and a missing token; the first logout of a session sets its     *)
(* is_active to false, and a logout that finds no active row with the      *)
(* token changes no stored state.                                          *)
C6_LogoutIdempotent ==
    [][Serves("logout")
       => /\ last'.code = 200
          /\ \A i \in DOMAIN sessions :
                (sessions[i].token_hash = last'.token /\ sessions[i].is_active)
                => sessions' = [sessions EXCEPT ![i].is_active = FALSE]
          /\ (~\E i \in DOMAIN sessions :
                 sessions[i].token_hash = last'.token /\ sessions[i].is_active)
                => sessions' = sessions
          /\ UNCHANGED <<users, login_history, reset_requests>>]_vars

(* C7: a successful login answers with the identity (id) of the user that  *)
(* logged in, and from then on a profile request with the issued token is  *)
(* answered for that user at every time before expires_at = login time +   *)
(* the session lifetime, as long as the session has not been logged out.   *)
C7_TokenResolvesUntilLogout ==
    [][/\ (Serves("login") /\ Len(sessions') = Len(sessions) + 1)
          => /\ last'.code = 200
             /\ last'.user = sessions'[Len(sessions')].user_id
             /\ users[last'.user].username = last'.username
             /\ sessions'[Len(sessions')].expires_at = now + SESSION_EXPIRE_HOURS
       /\ \A i \in DOMAIN sessions :
             (/\ Serves("get_profile")
              /\ last'.token = sessions[i].token_hash
              /\ sessions[i].is_active
              /\ now < sessions[i].expires_at)
             => /\ last'.code = 200
                /\ last'.user = sessions[i].user_id]_vars

C10_ApproveClearsLock ==
    [][\A a \in AdminOf(last'.token) :
         (/\ Serves("resolve")
          /\ last'.target \in DOMAIN reset_requests
          /\ reset_requests[last'.target].status = "pending")
         => LET r == last'.target
                uid == reset_requests[r].user_id
            IN /\ last'.status = "approved"
                  => /\ users'[uid].failed_login_attempts = 0
                     /\ users'[uid].locked_until = NULL
                     /\ reset_requests'[r].status = "approved"
                     /\ reset_requests'[r].resolved_by = a
                     /\ reset_requests'[r].resolved_at = now
               /\ last'.status = "rejected"
                  => /\ users'[uid].failed_login_attempts
                           = users[uid].failed_login_attempts
                     /\ users'[uid].locked_until = users[uid].locked_until]_vars

\* the request of a user whose lock from five failures was still running
\* has just been approved
C10_Witness ==
    /\ last.op = "resolve" /\ last.status = "approved" /\ last.code = 200
    /\ reset_requests[last.target].status = "approved"
    /\ reset_requests[last.target].user_id = 2
    /\ reset_requests[last.target].resolved_by = 1
    /\ reset_requests[last.target].resolved_at = now
    /\ CountRows(2, FALSE, "bad-credential-now-locked") = 1
    /\ CountRows(2, TRUE, "none") = 0
    /\ now < FAIL_LOCK_DURATION_HOURS
    /\ users[2].failed_login_attempts = 0
    /\ users[2].locked_until = NULL
\* the operations other than update_user that write, or could write, a user
OtherUserOps == {"login", "logout", "reset_request", "resolve",
                 "reset_password", "change_password", "update_profile"}

(* C11: permanent_lock of a user goes from true to false only in an        *)
(* update_user request on that user whose body has permanent_lock; login,  *)
(* logout, reset-request submission, resolution, administrative password   *)
(* reset, password change and profile update leave every permanent_lock as *)
(* it was, and a login of a permanently locked user is refused as locked   *)
(* also when a reset request of that user has been approved.               *)
C11_PermanentLockFrame ==
    [][/\ \A i \in DOMAIN users :
            (users[i].permanent_lock /\ ~users'[i].permanent_lock)
            => /\ Serves("update_user")
               /\ last'.target = i
               /\ Has(last'.payload.permanent_lock)
       /\ (now' = now /\ last'.op \in OtherUserOps)
            => \A i \in DOMAIN users :
                  users'[i].permanent_lock = users[i].permanent_lock
       /\ \A i \in DOMAIN users :
            (LoginFor(i) /\ users[i].permanent_lock)
            => /\ last'.code = 401
               /\ last'.detail = "locked-contact-admin"
               /\ users'[i].permanent_lock]_vars

\* a permanently locked user was refused at login with the right passphrase
\* after the administrator approved that user's reset request
C11_Witness ==
    /\ last.op = "login" /\ last.target = 2
    /\ last.detail = "locked-contact-admin"
    /\ verify_password(last.password, users[2].password_hash)
    /\ users[2].permanent_lock
    /\ \E r \in DOMAIN reset_requests :
          /\ reset_requests[r].user_id = 2
          /\ reset_requests[r].status = "approved"

\* rows of user uid in login_history with success = ok
RowsOf(h, uid, ok) ==
    LET rows == {r \in BagToSet(h) : r.user_id = uid /\ r.success = ok}
        Sum[S \in SUBSET rows] ==
            IF S = {} THEN 0
            ELSE LET r == CHOOSE x \in S : TRUE
                 IN CopiesIn(r, h) + Sum[S \ {r}]
    IN Sum[rows]

(* C12: one login request adds exactly one row to login_history, changes    *)
(* at most one user row and inserts at most one session row, keeping the   *)
(* session rows there were; it inserts a session row exactly when the row  *)
(* it added has success = true.  No step raises a failure counter or sets  *)
(* a temporary lock without adding a failure row of that user.             *)
C12_LoginOneCommit ==
    [][/\ Serves("login")
          => /\ \E r \in BagToSet(login_history') :
                  /\ login_history' = login_history (+) SetToBag({r})
                  /\ r.success <=> Len(sessions') = Len(sessions) + 1
                  /\ r.user_id = last'.target
             /\ Len(sessions') \in {Len(sessions), Len(sessions) + 1}
             /\ \A s \in DOMAIN sessions : sessions'[s] = sessions[s]
             /\ DOMAIN users' = DOMAIN users
             /\ Cardinality({i \in DOMAIN users : users'[i] # users[i]}) <= 1
       /\ \A i \in DOMAIN users :
            (\/ users'[i].failed_login_attempts > users[i].failed_login_attempts
             \/ /\ users'[i].locked_until # users[i].locked_until
                /\ users'[i].locked_until # NULL)
            => RowsOf(login_history', i, FALSE)
                  = RowsOf(login_history, i, FALSE) + 1]_vars

\* after one successful login of the administrator, the failure that locks
\* the user is on record with the failures before it
C12_Witness ==
    /\ last.op = "login" /\ last.target = 2 /\ last.code = 401
    /\ is_locked(users[2])
    /\ Len(sessions) = 1
    /\ RowsOf(login_history, 1, TRUE) = 1
    /\ RowsOf(login_history, 2, FALSE) = FAIL_LOCK_ATTEMPTS
    /\ CountRows(2, FALSE, "bad-credential-now-locked") = 1

(* C14: while nothing but wrong-password logins touches a user, the        *)
(* failed_login_attempts stored for the user is the number of logins that  *)
(* passed the lock check and failed on the passphrase: no increment is     *)
(* lost, however the logins overlap.                                       *)
C14_NoLostIncrement ==
    \A i \in DOMAIN users :
        users[i].failed_login_attempts
            = CountRows(i, FALSE, "bad-credential")
              + CountRows(i, FALSE, "bad-credential-now-locked")

\* calls that have been answered with success for request r
Resolved(r) ==
    {p \in Calls : /\ inflight[p].phase = "done"
                   /\ inflight[p].op = "resolve"
                   /\ inflight[p].target = r
                   /\ inflight[p].code = 200}

Answers(p) == inflight[p].phase # "done" /\ inflight'[p].phase = "done"

(* C16: no two rows of users have the same username; and a registration or *)
(* a rename (by the administrator or by the user) that is let in by its    *)
(* gate and asks for a name another user holds when the request is         *)
(* answered is answered with 400 and leaves the users table as it was.     *)
C16_UniqueUsernames ==
    /\ [](\A i, j \in DOMAIN users :
             users[i].username = users[j].username => i = j)
    /\ [][\A p \in Calls :
            (/\ Answers(p)
             /\ inflight'[p].op \in {"register", "update_user",
                                     "update_profile"}
             /\ inflight'[p].code \notin {401, 403, 404}
             /\ \E j \in DOMAIN users :
                   /\ j # inflight'[p].target
                   /\ users[j].username = inflight'[p].username)
            => /\ inflight'[p].code = 400
               /\ users' = users]_vars

(* C17: an update_user request that passes the administrator gate changes, *)
(* of the target's username, is_admin, is_active, permanent_lock and       *)
(* locked_until, exactly the fields its body has, to the values it has     *)
(* (locked_until = null lifts the temporary lock), and nothing else in the *)
(* table; failed_login_attempts and password_hash stay.  A username held   *)
(* by another user is answered with 400 and no field is applied; the       *)
(* target's own username is accepted.  An unknown target is answered 404.  *)
C17_UpdateUserFrame ==
    [][(Serves("update_user") /\ last'.code \notin {401, 403})
       => LET i == last'.target
              d == last'.payload
          IN
          IF i \notin DOMAIN users
          THEN last'.code = 404 /\ users' = users
          ELSE IF /\ Has(d.username)
                  /\ \E j \in DOMAIN users :
                        j # i /\ users[j].username = Val(d.username)
          THEN last'.code = 400 /\ users' = users
          ELSE
            /\ last'.code = 200
            /\ \A j \in DOMAIN users : j # i => users'[j] = users[j]
            /\ users'[i] = [users[i] EXCEPT
                 !.username = IF Has(d.username) THEN Val(d.username) ELSE @,
                 !.is_admin = IF Has(d.is_admin) THEN Val(d.is_admin) ELSE @,
                 !.is_active = IF Has(d.is_active) THEN Val(d.is_active) ELSE @,
                 !.permanent_lock = IF Has(d.permanent_lock)
                                    THEN Val(d.permanent_lock) ELSE @,
                 !.locked_until = IF Has(d.locked_until)
                                  THEN Val(d.locked_until) ELSE @]]_vars

\* the users whose valid session the token names
CallerOf(token) ==
    {sessions[i].user_id : i \in {j \in DOMAIN sessions :
        /\ sessions[j].token_hash = token
        /\ sessions[j].is_active
        /\ sessions[j].expires_at > now}}

(* C18: a profile update made with the valid session of a user who is not  *)
(* an administrator changes is_admin and is_active of no user, whatever    *)
(* the body says, and touches no row but the caller's.                     *)
C18_NoSelfPromotion ==
    [][\A c \in CallerOf(last'.token) :
          (Serves("update_profile") /\ ~users[c].is_admin)
          => /\ \A i \in DOMAIN users :
                   /\ users'[i].is_admin = users[i].is_admin
                   /\ users'[i].is_active = users[i].is_active
             /\ \A i \in DOMAIN users : i # c => users'[i] = users[i]]_vars

\* the user asked for is_admin = true and is_active = false along with a
\* new name: the name was stored, the two flags were not
C18_Witness ==
    /\ last.op = "update_profile" /\ last.code = 200 /\ last.user = 2
    /\ last.payload.is_admin = {TRUE}
    /\ last.payload.is_active = {FALSE}
    /\ last.payload.username = {"carol"}
    /\ users[2].username = "carol"
    /\ ~users[2].is_admin
    /\ users[2].is_active

\* the operations behind get_admin_user
AdminOps == {"admin_read", "get_user", "update_user", "reset_password",
             "resolve"}

(* C19: an administrative request gets past the gate only when its token   *)
(* names a valid session whose user has is_admin = true in the store at    *)
(* that request; with a valid session of a user who is not, or is no       *)
(* longer, an administrator it is answered 403 and writes nothing.         *)
C19_AdminPerRequest ==
    [][(now' = now /\ last'.op \in AdminOps)
       => /\ last'.code \notin {401, 403} => AdminOf(last'.token) # {}
          /\ (CallerOf(last'.token) # {} /\ AdminOf(last'.token) = {})
             => /\ last'.code = 403
                /\ UNCHANGED <<users, sessions, login_history,
                               reset_requests>>]_vars

\* the administrator of the initial store, the flag taken away, was refused
\* with a session that is still valid
C19_Witness ==
    /\ last.op \in AdminOps /\ last.code = 403
    /\ 1 \in CallerOf(last.token)
    /\ ~users[1].is_admin
    /\ users[2].is_admin

(* C20: an administrator's password reset that names a password or asks    *)
(* for a generated one, on an existing user, stores a hash of the          *)
(* password, sets failed_login_attempts = 0 and locked_until = null and    *)
(* leaves every other field of the row and every other row; the response   *)
(* carries the plaintext exactly when generation was asked for, and that   *)
(* plaintext is the stored password.  On an unknown user the answer is 404 *)
(* and nothing changes.                                                    *)
C20_SetPasswordFrame ==
    [][(/\ Serves("reset_password")
        /\ AdminOf(last'.token) # {}
        /\ last'.generate \/ last'.password # NoPassword)
       => LET i == last'.target IN
          IF i \notin DOMAIN users
          THEN /\ last'.code = 404
               /\ last'.new_password = NoPassword
               /\ users' = users
          ELSE
            /\ last'.code = 200
            /\ last'.new_password # NoPassword <=> last'.generate
            /\ verify_password(IF last'.generate THEN last'.new_password
                               ELSE last'.password,
                               users'[i].password_hash)
            /\ users'[i] = [users[i] EXCEPT
                              !.password_hash = users'[i].password_hash,
                              !.failed_login_attempts = 0,
                              !.locked_until = NULL]
            /\ \A j \in DOMAIN users : j # i => users'[j] = users[j]]_vars

\* a user locked by five failures and permanently locked was given a
\* generated password: counter and temporary lock are cleared, the
\* permanent lock is kept, the plaintext returned is the stored password
C20_Witness ==
    /\ last.op = "reset_password" /\ last.code = 200 /\ last.target = 2
    /\ last.generate
    /\ verify_password(last.new_password, users[2].password_hash)
    /\ CountRows(2, FALSE, "bad-credential-now-locked") = 1
    /\ users[2].failed_login_attempts = 0
    /\ users[2].locked_until = NULL
    /\ users[2].permanent_lock

(* C21: a reset-request submission is answered with the same success       *)
(* whether the username exists or not; for a username that exists it adds  *)
(* exactly one row to reset_requests, pending and unresolved, for that     *)
(* user, keeping the rows there were (also a pending one of the same       *)
(* user); for one that does not it changes nothing; it changes no user row.*)
C21_SubmitSameResult ==
    [][Serves("reset_request")
       => /\ last'.code = 200
          /\ last'.detail = "reset-request-sent"
          /\ users' = users
          /\ IF \E i \in DOMAIN users : users[i].username = last'.username
             THEN /\ Len(reset_requests') = Len(reset_requests) + 1
                  /\ \A r \in DOMAIN reset_requests :
                        reset_requests'[r] = reset_requests[r]
                  /\ LET new == reset_requests'[Len(reset_requests')] IN
                     /\ users[new.user_id].username = last'.username
                     /\ new.status = "pending"
                     /\ new.resolved_by = NULL
                     /\ new.resolved_at = NULL
             ELSE reset_requests' = reset_requests]_vars

\* session row s can be presented at instant t
ValidAt(s, t) == s.is_active /\ s.expires_at > t

(* C22: session rows are only added, one at a time, by a login that has    *)
(* verified the passphrase of the row's user, with is_active = true and    *)
(* expires_at = the time of the login + the session lifetime; a row there  *)
(* is keeps its user_id, token and expires_at for ever, and its is_active  *)
(* changes only from true to false and only in a logout with its token;    *)
(* no row is removed.  So a row that is not valid is not valid after any   *)
(* step.                                                                   *)
C22_SessionRowLifecycle ==
    [][/\ Len(sessions') >= Len(sessions)
       /\ \A s \in DOMAIN sessions :
             /\ sessions'[s].user_id = sessions[s].user_id
             /\ sessions'[s].token_hash = sessions[s].token_hash
             /\ sessions'[s].expires_at = sessions[s].expires_at
             /\ sessions'[s].is_active # sessions[s].is_active
                   => /\ sessions[s].is_active
                      /\ Serves("logout")
                      /\ last'.token = sessions[s].token_hash
             /\ ~ValidAt(sessions[s], now) => ~ValidAt(sessions'[s], now')
       /\ Len(sessions') > Len(sessions)
             => /\ Len(sessions') = Len(sessions) + 1
                /\ Serves("login")
                /\ LET new == sessions'[Len(sessions')] IN
                   /\ new.is_active
                   /\ new.expires_at = now + SESSION_EXPIRE_HOURS
                   /\ new.user_id \in DOMAIN users
                   /\ users[new.user_id].username = last'.username
                   /\ ~Locked(users[new.user_id])
                   /\ verify_password(last'.password,
                                      users[new.user_id].password_hash)]_vars

\* one session was logged out, the other has expired and was refused
C22_Witness ==
    /\ Len(sessions) = 2
    /\ ~sessions[1].is_active
    /\ sessions[2].is_active /\ sessions[2].expires_at <= now
    /\ last.op \in ProtectedOps
    /\ last.token = sessions[2].token_hash
    /\ last.code = 401

(* C23: a login with the right passphrase of a user who is not permanently *)
(* locked and whose locked_until has been reached succeeds without any     *)
(* step of an administrator in between: it is answered with success, adds  *)
(* a session of the user and stores failed_login_attempts = 0 and          *)
(* locked_until = null.                                                    *)
C23_LockLapses ==
    [][\A i \in DOMAIN users :
         (/\ LoginFor(i)
          /\ ~users[i].permanent_lock
          /\ users[i].locked_until # NULL /\ users[i].locked_until <= now
          /\ verify_password(last'.password, users[i].password_hash))
         => /\ last'.code = 200
            /\ Len(sessions') = Len(sessions) + 1
            /\ sessions'[Len(sessions')].user_id = i
            /\ ValidAt(sessions'[Len(sessions')], now)
            /\ users'[i].failed_login_attempts = 0
            /\ users'[i].locked_until = NULL]_vars

\* the alphabet in the words of the claim
LowerNoL == {"a", "b", "c", "d", "e", "f", "g", "h", "i", "j", "k", "l",
             "m", "n", "o", "p", "q", "r", "s", "t", "u", "v", "w", "x",
             "y", "z"} \ {"l"}
UpperNoIO == {"A", "B", "C", "D", "E", "F", "G", "H", "I", "J", "K", "L",
              "M", "N", "O", "P", "Q", "R", "S", "T", "U", "V", "W", "X",
              "Y", "Z"} \ {"I", "O"}
DigitNo01 == {"0", "1", "2", "3", "4", "5", "6", "7", "8", "9"} \ {"0", "1"}

(* C24: the passphrase generated for a length of 32..128 has exactly that  *)
(* length, every character of it is a lowercase letter other than l, an    *)
(* uppercase letter other than I and O or a digit other than 0 and 1, and  *)
(* it has at least one character of each of the three kinds.               *)
C24_GeneratedPassword ==
    last.op = "generate_password"
    => LET password == last.new_password IN
       /\ last.target \in 32..128
       /\ DOMAIN password = 1..last.target
       /\ \A k \in DOMAIN password :
             password[k] \in LowerNoL \cup UpperNoIO \cup DigitNo01
       /\ \E k \in DOMAIN password : password[k] \in LowerNoL
       /\ \E k \in DOMAIN password : password[k] \in UpperNoIO
       /\ \E k \in DOMAIN password : password[k] \in DigitNo01

\* a passphrase of the shortest length in which the three kinds are spread
C24_Witness ==
    /\ last.op = "generate_password" /\ last.target = 32
    /\ Len(last.new_password) = 32
    /\ Cardinality(Chars(last.new_password)) = 32
    /\ \E k \in 1..32 : last.new_password[k] \in DigitNo01

(* ---------------- C25 --------------------------------------------------- *)
\* ceil(seconds / 60) for seconds >= 0
CeilMinutes(seconds) == (seconds + 59) \div 60

\* C25: a login refused for a temporary lock exposes
\* ceil((locked_until - now) / 60 s) remaining minutes, which is at least 1
\* while the account is locked; a login refused for a permanent lock exposes
\* no remaining time, also when locked_until lies in the future.
C25_RemainingMinutes ==
    [][\A i \in DOMAIN users :
         LoginFor(i) =>
           /\ last'.detail = "locked-retry-later" =>
                /\ last'.minutes =
                     CeilMinutes(total_seconds(users[i].locked_until,
                                               last'.elapsed))
                /\ last'.minutes >= 1
           /\ last'.detail = "locked-contact-admin" => last'.minutes = NULL
      ]_vars

\* the same with the minutes as the handler computes them, and the permanent
\* half of the claim
C25_TruncatedMinutes ==
    [][\A i \in DOMAIN users :
         LoginFor(i) =>
           /\ last'.detail = "locked-retry-later" =>
                /\ last'.minutes =
                     total_seconds(users[i].locked_until, last'.elapsed)
                        \div 60
                /\ last'.minutes >= 0
           /\ last'.detail = "locked-contact-admin" => last'.minutes = NULL
      ]_vars


(* ---------------- C26 --------------------------------------------------- *)
\* C26: every wrong-password login for a known user that is not locked
\* raises failed_login_attempts by exactly 1; if the new count is at or above
\* the threshold, locked_until becomes now + the lock duration and the one
\* history row added has the reason bad-credential-now-locked; if it is below,
\* locked_until is left as it was and the row has the reason bad-credential.
C26_WrongPasswordStep ==
    [][\A i \in DOMAIN users :
         (/\ LoginFor(i)
          /\ ~Locked(users[i])
          /\ ~verify_password(last'.password, users[i].password_hash))
         => LET n == users[i].failed_login_attempts + 1
                reason == IF n >= FAIL_LOCK_ATTEMPTS
                          THEN "bad-credential-now-locked"
                          ELSE "bad-credential"
            IN
            /\ users'[i].failed_login_attempts = n
            /\ users'[i].locked_until =
                  IF n >= FAIL_LOCK_ATTEMPTS
                  THEN now + FAIL_LOCK_DURATION_HOURS
                  ELSE users[i].locked_until
            /\ login_history' = login_history (+)
                  SetToBag({HistoryRow(i, FALSE, reason)})
      ]_vars

\* a wrong passphrase after the lapse of a lock: the count goes above the
\* threshold and the second now-locked row is written
C26_Witness ==
    /\ last.op = "login" /\ last.target = 2 /\ last.detail = "auth-failed"
    /\ users[2].failed_login_attempts = FAIL_LOCK_ATTEMPTS + 1
    /\ users[2].locked_until = now + FAIL_LOCK_DURATION_HOURS
    /\ now >= FAIL_LOCK_DURATION_HOURS
    /\ CountRows(2, FALSE, "bad-credential-now-locked") = 2
    /\ CountRows(2, FALSE, "bad-credential") = FAIL_LOCK_ATTEMPTS - 1


(* ---------------- C27 --------------------------------------------------- *)
\* the history row a refused login writes: no user for an unknown username,
\* the permanent lock named before the temporary one
RefusalRow(username) ==
    LET uid == UserByName(username) IN
    IF uid = NULL THEN HistoryRow(NULL, FALSE, "unknown-user")
    ELSE IF users[uid].permanent_lock
         THEN HistoryRow(uid, FALSE, "permanent-lock")
         ELSE HistoryRow(uid, FALSE, "temporary-lock")

\* C27: a login that fails because the username is unknown or the user is
\* locked changes no User row and creates no Session; its only effect is one
\* appended LoginHistory row with success = false, with user_id null for an
\* unknown username and the user's id otherwise, and with the permanent-lock
\* reason when the user is locked both permanently and temporarily.
C27_RefusalFrame ==
    [][(/\ Serves("login")
        /\ LET uid == UserByName(last'.username) IN
           uid = NULL \/ Locked(users[uid]))
       => /\ users' = users
          /\ sessions' = sessions
          /\ reset_requests' = reset_requests
          /\ login_history' = login_history (+)
                SetToBag({RefusalRow(last'.username)})
      ]_vars

\* a login with the right passphrase has been refused for a user that is
\* locked both ways: the row names the permanent lock
C27_Witness ==
    /\ last.op = "login" /\ last.target = 2 /\ last.password = "pw1"
    /\ users[2].permanent_lock /\ TemporarilyLocked(users[2])
    /\ CountRows(2, FALSE, "permanent-lock") = 1
    /\ CountRows(2, FALSE, "temporary-lock") = 0
    /\ CountRows(NULL, FALSE, "unknown-user") = 0
    /\ users[2].failed_login_attempts = FAIL_LOCK_ATTEMPTS
    /\ Len(sessions) = 1


(* ---------------- C28 --------------------------------------------------- *)
\* the lock of u was set and its time has passed
Lapsed(u) == u.locked_until # NULL /\ u.locked_until <= now

\* the step answers a request that returns the counter of user i to 0: a
\* login of i that verified the passphrase, the approval of a pending request
\* of i by an administrator, or an administrator's set_password for i
ClearsCounter(i) ==
    \/ /\ LoginFor(i) /\ ~Locked(users[i])
       /\ verify_password(last'.password, users[i].password_hash)
    \/ /\ Serves("resolve") /\ AdminOf(last'.token) # {}
       /\ last'.status = "approved"
       /\ last'.target \in DOMAIN reset_requests
       /\ reset_requests[last'.target].status = "pending"
       /\ reset_requests[last'.target].user_id = i
    \/ /\ Serves("reset_password") /\ AdminOf(last'.token) # {}
       /\ last'.target = i

\* C28: the lapse of a temporary lock does not reset failed_login_attempts: a
\* user whose lock has expired still has a counter at or above the threshold,
\* so the first wrong-password login after the lapse sets a new lock of the
\* full duration at once; the counter returns to 0 only by a successful
\* login, an approved reset request or an administrative set_password.
C28_LapseKeepsCounter ==
    [][\A i \in DOMAIN users :
         /\ now' # now =>
               users'[i].failed_login_attempts = users[i].failed_login_attempts
         /\ Lapsed(users[i]) =>
               users[i].failed_login_attempts >= FAIL_LOCK_ATTEMPTS
         /\ (/\ Lapsed(users[i]) /\ ~users[i].permanent_lock
             /\ LoginFor(i)
             /\ ~verify_password(last'.password, users[i].password_hash))
            => /\ users'[i].locked_until = now + FAIL_LOCK_DURATION_HOURS
               /\ is_locked(users'[i])
         /\ (/\ users[i].failed_login_attempts > 0
             /\ users'[i].failed_login_attempts = 0)
            => ClearsCounter(i)
      ]_vars

\* the lock of five failures lapsed and the next wrong passphrase has locked
\* the user for the full duration again, with no session in between
C28_Witness ==
    /\ last.op = "login" /\ last.target = 2 /\ last.password = "pw2"
    /\ now >= FAIL_LOCK_DURATION_HOURS
    /\ users[2].locked_until = now + FAIL_LOCK_DURATION_HOURS
    /\ users[2].failed_login_attempts > FAIL_LOCK_ATTEMPTS
    /\ CountRows(2, FALSE, "temporary-lock") = 0
    /\ CountRows(2, TRUE, "none") = 0
    /\ sessions = <<>>


(* ---------------- C29 --------------------------------------------------- *)
\* C29: in every state reached without an administrative update_user that
\* writes locked_until, a user with locked_until set has
\* failed_login_attempts at or above the lock threshold, and
\* failed_login_attempts is never negative.
C29_LockImpliesThreshold ==
    \A i \in DOMAIN users :
       /\ users[i].failed_login_attempts >= 0
       /\ users[i].locked_until # NULL
             => users[i].failed_login_attempts >= FAIL_LOCK_ATTEMPTS


(* ---------------- C30 --------------------------------------------------- *)
\* the Session rows of user i
SessionsOf(i) == {k \in DOMAIN sessions : sessions[k].user_id = i}

\* the LoginHistory rows of user i with success = true
SuccessRowsOf(i) ==
    LET rows == {r \in BagToSet(login_history) : r.user_id = i /\ r.success}
    IN BagCardinality([r \in rows |-> CopiesIn(r, login_history)])

\* as many sessions as successes for every user, no reason on a success
SessionsMatchHistory ==
    /\ \A i \in DOMAIN users : Cardinality(SessionsOf(i)) = SuccessRowsOf(i)
    /\ \A k \in DOMAIN sessions : sessions[k].user_id \in DOMAIN users
    /\ \A r \in BagToSet(login_history) :
          r.success => r.failure_reason = "none"

\* a Session row appears only in a login that verified the passphrase of the
\* user the row names, and keeps its user_id
SessionOfVerifiedUser ==
    /\ \A k \in DOMAIN sessions :
          k \in DOMAIN sessions' /\ sessions'[k].user_id = sessions[k].user_id
    /\ Len(sessions') # Len(sessions) =>
          /\ Len(sessions') = Len(sessions) + 1
          /\ LET i == sessions'[Len(sessions')].user_id IN
             /\ i \in DOMAIN users
             /\ LoginFor(i)
             /\ verify_password(last'.password, users[i].password_hash)

\* C30: in every reachable state the number of Session rows of a user equals
\* the number of LoginHistory rows with success = true for that user, every
\* Session's user_id is the id of the user whose password was verified in the
\* login that created it, and every LoginHistory row with success = true has
\* failure_reason = null.
C30_SessionPerSuccess ==
    []SessionsMatchHistory /\ [][SessionOfVerifiedUser]_vars

\* two users have logged in, one of them after failures and a refusal for an
\* unknown username: one session and one success row each
C30_Witness ==
    /\ Cardinality(SessionsOf(1)) = 1 /\ SuccessRowsOf(1) = 1
    /\ Cardinality(SessionsOf(2)) = 1 /\ SuccessRowsOf(2) = 1
    /\ CountRows(2, FALSE, "bad-credential") >= 1
    /\ CountRows(NULL, FALSE, "unknown-user") >= 1
    /\ last.op = "login" /\ last.target = 2 /\ last.password = "pw1"


(* ---------------- C31 --------------------------------------------------- *)
\* C31: a user with is_admin = true comes into existence only through an
\* operation gated by an existing administrator's valid session: a request
\* made without an administrator's session (register, login, logout,
\* reset-request submit, password change, profile update by a non-admin)
\* leaves no User row with is_admin = true that was not an administrator
\* before.
C31_NoAdminWithoutAdmin ==
    [][AdminOf(last'.token) = {} =>
         \A i \in DOMAIN users' :
            users'[i].is_admin => i \in DOMAIN users /\ users[i].is_admin
      ]_vars


(* ---------------- C32 --------------------------------------------------- *)
\* the profile and password-change operations
SelfServiceOps == {"get_profile", "change_password", "update_profile"}

\* the operations that lock, deactivate or unlock a user
DisablingOps == {"update_user", "reset_password", "resolve"}

\* C32: whether a session resolves depends only on the Session row and the
\* clock: a session that is is_active and unexpired resolves to its user in
\* the profile and password-change operations also when that user is
\* temporarily locked, permanently locked or deactivated, after an
\* administrative set_password and after an approved or rejected reset
\* request; and none of the operations that bring this about (a failing
\* login, update_user, set_password, the resolution of a request) changes any
\* Session row.
C32_SessionOutlivesUser ==
    [][/\ (/\ now' = now
           /\ last'.op \in SelfServiceOps
           /\ TokenValid(last'.token))
          => /\ last'.code \notin {401, 403, 404}
             /\ last'.user = sessions[ValidSession(last'.token)].user_id
       /\ (now' = now /\ last'.op \in DisablingOps) => sessions' = sessions
       /\ (Serves("login") /\ last'.code = 401) => sessions' = sessions
       /\ Serves("login") =>
             \A k \in DOMAIN sessions :
                k \in DOMAIN sessions' /\ sessions'[k] = sessions[k]
      ]_vars

\* the user was locked by five failures, locked permanently and deactivated
\* and the reset request was rejected; the session issued before still
\* resolves and the password change is accepted
C32_Witness ==
    /\ last.op = "change_password" /\ last.code = 200 /\ last.user = 2
    /\ TokenValid(last.token)
    /\ users[2].permanent_lock /\ ~users[2].is_active
    /\ TemporarilyLocked(users[2])
    /\ reset_requests[1].status = "rejected"


(* ---------------- C33 --------------------------------------------------- *)
\* C33: a user that has been deactivated (is_active = false) cannot obtain a
\* new session: a login for such a user never succeeds and never inserts a
\* Session, whatever password is supplied.
C33_InactiveNoSession ==
    [][\A i \in DOMAIN users :
         (LoginFor(i) /\ ~users[i].is_active)
         => /\ sessions' = sessions
            /\ last'.code # 200
            /\ CountRows(i, TRUE, "none")' = CountRows(i, TRUE, "none")
      ]_vars

\* the same for a wrong passphrase only
C33_InactiveWrongPassword ==
    [][\A i \in DOMAIN users :
         (/\ LoginFor(i) /\ ~users[i].is_active
          /\ ~verify_password(last'.password, users[i].password_hash))
         => /\ sessions' = sessions
            /\ last'.code # 200
      ]_vars


(* ---------------- C34 --------------------------------------------------- *)
\* the body names a username that another user holds
NameTaken(c, data) ==
    /\ Has(data.username)
    /\ Val(data.username) # users[c].username
    /\ UserByName(Val(data.username)) # NULL

\* every field present in the body is stored in the row of c, every absent
\* one is kept; a taken username is refused and nothing is stored
ProfileFieldsApplied(c, data) ==
    IF NameTaken(c, data)
    THEN last'.code = 400 /\ users' = users
    ELSE /\ last'.code = 200
         /\ users'[c].username =
               IF Has(data.username) THEN Val(data.username)
               ELSE users[c].username
         /\ users'[c].is_admin =
               IF Has(data.is_admin) THEN Val(data.is_admin)
               ELSE users[c].is_admin
         /\ users'[c].is_active =
               IF Has(data.is_active) THEN Val(data.is_active)
               ELSE users[c].is_active

\* C34: in a self-service profile update by a caller who is an administrator,
\* each of username, is_admin and is_active present in the payload is applied
\* independently of the others (a request carrying is_admin = false and
\* is_active = false stores both), and a request rejected with Conflict for a
\* taken username stores neither.
C34_AdminProfileFields ==
    [][\A c \in CallerOf(last'.token) :
          (Serves("update_profile") /\ users[c].is_admin)
          => ProfileFieldsApplied(c, last'.payload)
      ]_vars

\* the same for the bodies that do not give up the role along with is_active
C34_WithoutDemotion ==
    [][\A c \in CallerOf(last'.token) :
          (/\ Serves("update_profile") /\ users[c].is_admin
           /\ ~(last'.payload.is_admin = {FALSE}
                /\ Has(last'.payload.is_active)))
          => ProfileFieldsApplied(c, last'.payload)
      ]_vars

====
